---- MODULE Spec2Model ----
(***************************************************************************)
(* A model of the sensor monitor: the RuuviTag sensor cache kept by        *)
(* SensorThread (sensor_thread.py), the backlight schedule table           *)
(* (backlight.py) and the monitor loop of SensorMonitor                    *)
(* (sensor_monitor.py).                                                    *)
(*                                                                         *)
(* Python objects are references.  The dicts the program holds live in two *)
(* heaps: "dicts" holds the dict objects keyed by sensor mac (the backing  *)
(* dict of the cache and the copy handed out by sensor_list), "readings"   *)
(* holds the data dicts delivered by the receiver.  A variable that holds  *)
(* a dict holds its reference.                                             *)
(***************************************************************************)
EXTENDS Integers, Sequences, FiniteSets, TLC

\* ------------------------------------------------------------------ bounds
\* Number of threads that may call _receive_sensor_data concurrently.
NumWriters == 2
\* Total number of calls of _receive_sensor_data in a run.
MaxRecords == 2
\* Sensors already in the cache when the monitor loop is entered.
MaxSensors == 4
\* Calls of _receive_sensor_data while the monitor loop runs.
MaxMonRecords == 1
\* Passes of the monitor loop.
MaxCycles == 2
\* Sensors in the cache when the display update is looked at alone.
MaxRows == 7
\* Snapshots of up to this many keys are looked at in every insertion order.
MaxPermuted == 4
\* Sensors known when the tracking of the known sensors is looked at alone.
MaxKnown == 3
\* SIGTERM signals delivered to the program.
MaxSignals == 1

\* ----------------------------------------------------------------- samples
Writers == 1..NumWriters
\* Sensor macs, and the ones the receiver delivers while the model runs.
MacSamples ==
    << "AA:BB:CC:DD:EE:01", "AA:BB:CC:DD:EE:02", "AA:BB:CC:DD:EE:03", "AA:BB:CC:DD:EE:04",
       "AA:BB:CC:DD:EE:05", "AA:BB:CC:DD:EE:06", "AA:BB:CC:DD:EE:07", "AA:BB:CC:DD:EE:08" >>
AllMacs == {MacSamples[i] : i \in 1..Len(MacSamples)}
Macs == {MacSamples[1], MacSamples[2]}
\* A mac that is not hashable (a list): no dict accepts it as a key.
UnhashableKey == "[unhashable]"
\* The data dicts the receiver delivers (temperature C, humidity %, pressure hPa).
FieldSamples ==
    { [temperature |-> 20, humidity |-> 40, pressure |-> 1000],
      [temperature |-> 25, humidity |-> 55, pressure |-> 990] }
\* Shapes of the argument of the callback: a (mac, dict) pair, a 1-tuple,
\* a pair whose second item is None, a pair whose first item is unhashable.
Shapes == {"pair", "single", "none_data", "bad_key"}
\* What the receiver delivers: the first mac with either reading, the second
\* mac with one, and one argument of each malformed shape.
FirstFields == [temperature |-> 20, humidity |-> 40, pressure |-> 1000]
ArgumentSamples ==
    { [shape |-> "pair", mac |-> MacSamples[1], fields |-> f] : f \in FieldSamples }
    \cup { [shape |-> "pair", mac |-> MacSamples[2], fields |-> FirstFields] }
    \cup { [shape |-> sh, mac |-> MacSamples[1], fields |-> FirstFields] : sh \in Shapes \ {"pair"} }

\* Python's None, as a reference, and the two dict objects.
None == 0
ListId == 1
CopyId == 2
\* Thread identities for the lock: the calling threads of the callback are
\* 1..NumWriters, the monitor loop's thread is MonitorThread.
MonitorThread == 0
\* The thread of the ingestion, the one caller of the callback when the
\* program runs as a whole.
IngestionThread == 1
Free == -1

VARIABLES
    \* SensorThread
    data_point_count,        \* self._data_point_count
    dicts,                   \* heap of mac-keyed dicts: dicts[ListId] is self._sensor_list
    readings,                \* heap of data dicts, by reference 1..Len(readings)
    list_lock,               \* self._list_lock: Free or the thread holding it
    pending_sensor_changes,  \* self._pending_sensor_changes
    log,                     \* what the logger was given, in order
    \* one frame of _receive_sensor_data per calling thread
    wpc,                     \* position in _receive_sensor_data
    received_data,           \* the argument: a tuple
    mac,                     \* local mac
    data,                    \* local data (a reference)
    exc,                     \* the exception being handled, "" when none
    \* the thread reading the cache
    rpc,                     \* position in the sensor_list property
    current_data,            \* the reference sensor_list returned
    pending_call,            \* position in the pending_changes property, its local c, and as
                             \* history how many records had set the flag at its last two reads
    now,                     \* datetime.now(), seconds
    \* BacklightState
    off_at,                  \* constructor argument, "HH:MM" as characters
    on_at,                   \* constructor argument, "HH:MM" as characters
    backlight_state_table,   \* self._backlight_state_table, indexed from 0
    on_minute,               \* local on_minute
    off_minute,              \* local off_minute
    bpc,                     \* position in BacklightState.__init__
    for_time_dt,             \* argument of the last query_backlight_state_dt
    backlight_query,         \* what that query returned
    \* history
    passed,                  \* per reading reference: the mac and fields the receiver passed
    last_write,              \* per mac: the reference stored by the latest store
    returned,                \* macs for which a record call has returned after storing
    returned_at_call,        \* "returned" when the running sensor_list call began
    snap_view,               \* the content of the copy when sensor_list made it
    list_at_acquire,         \* the backing dict's content when the lock was last acquired
    sched_in,                \* the minutes of day the two constructor arguments were written from
    off_marks,               \* how many times the constructor's loop body ran
    calls_left,              \* how many calls the receiver still makes in this run
    \* SensorMonitor
    page_interval,           \* self._page_interval, seconds
    offline_time,            \* self._offline_time, seconds
    temperature_format,      \* self._temperature_format
    debug_sensors,           \* self._debug_sensors
    sensor_config,           \* self._sensor_config: per configured mac its name
    known_sensors,           \* self._known_sensors, a list
    terminate_monitor,       \* self._terminate_monitor
    mpc,                     \* position of the main thread in run and _update_sensor_display
    mexc,                    \* the exception raised in the try block of run, "" when none
    mon_log,                 \* what run gave the logger, in order
    display_lines,           \* local display_lines
    line_idx,                \* index of a_line in the for loop over display_lines
    line_num,                \* local line_num
    number_sensors_to_display, \* local number_sensors_to_display
    dump_file,               \* the file ruuvitag.json
    \* the LCD panel
    lcd_backlight,           \* the backlight, 1 on and 0 off
    lcd_rows,                \* per row: the string last written from its first column
    \* history of the monitor loop
    cycle_calls,             \* the calls run has made on the LCD in the current cycle
    cycles,                  \* passes of the while loop begun
    snapshots,               \* values run has been given by sensor_list
    cycle_pauses,            \* the sleeps of run that have returned in the current cycle
    asleep_request,          \* a call of terminate() or a SIGTERM has come while run was in a sleep
    \* _mac_name and _now_str called on their own
    text_call,               \* the function called and its arguments
    text_result,             \* the string it has returned
    \* MainProgram, the ingestion thread and the LCD handle
    ppc,                     \* position of the main thread in MainProgram.run, "run" while in SensorMonitor.run
    cpc,                     \* position in the _clean_up call that is running, "none" outside
    handler,                 \* how many calls of _terminate_handler the main thread is in
    cleanup_complete,        \* self._cleanup_complete
    runflag,                 \* SensorThread._runflag.running
    thd_alive,               \* the ingestion thread has been started and run has not returned
    lcd_open,                \* LCD._lcd_device is not None
    sigterms,                \* SIGTERM signals delivered
    cleanup_trace            \* the steps clean-up has completed, in order

cacheVars ==
    << data_point_count, dicts, readings, list_lock, pending_sensor_changes, log,
       wpc, received_data, mac, data, exc >>
readerVars == << rpc, current_data, pending_call >>
backlightVars ==
    << off_at, on_at, backlight_state_table, on_minute, off_minute, bpc, for_time_dt,
       backlight_query, sched_in, off_marks >>
histVars ==
    << passed, last_write, returned, returned_at_call, snap_view, list_at_acquire, calls_left >>
textVars == << text_call, text_result >>
configVars == << page_interval, offline_time, temperature_format, debug_sensors, sensor_config >>
displayVars == << display_lines, line_idx, line_num, number_sensors_to_display >>
lcdVars == << lcd_backlight, lcd_rows, cycle_calls >>
mainVars ==
    << ppc, cpc, handler, cleanup_complete, runflag, thd_alive, lcd_open, sigterms, cleanup_trace >>
monVars ==
    << mainVars, asleep_request, configVars, textVars, known_sensors, terminate_monitor, mpc, mexc, mon_log,
       displayVars, dump_file, lcdVars, cycles, snapshots, cycle_pauses >>
vars == << cacheVars, readerVars, now, histVars, backlightVars, monVars >>

\* ------------------------------------------------------------ dict helpers
\* A dict is its items in insertion order, as Python keeps them.
EmptyDict == << >>
DictKeys(d) == {d[i].key : i \in 1..Len(d)}
DictGet(d, k) == d[CHOOSE i \in 1..Len(d) : d[i].key = k].ref
\* The keys in iteration order.
DictOrder(d) == [i \in 1..Len(d) |-> d[i].key]

\* d[k] = v on a dict: a new key goes last, a key already present keeps its
\* place and gets the new value; every other item is kept.
DictSet(d, k, v) ==
    IF k \in DictKeys(d)
    THEN [i \in 1..Len(d) |-> IF d[i].key = k THEN [key |-> k, ref |-> v] ELSE d[i]]
    ELSE Append(d, [key |-> k, ref |-> v])

\* The content a mac-keyed dict shows: each key with the content of its data dict.
View(ds, rs, ref) ==
    [k \in DictKeys(ds[ref]) |-> rs[DictGet(ds[ref], k)]]

Hashable(k) == k # UnhashableKey

\* ----------------------------------------------------------------- logging
LogEntry(level, who, text) == [level |-> level, who |-> who, text |-> text]

\* ------------------------------------------------- SensorThread.__init__
InitCache ==
    /\ data_point_count = 0
    /\ dicts = [i \in {ListId, CopyId} |-> EmptyDict]
    /\ readings = << >>
    /\ list_lock = Free
    /\ pending_sensor_changes = FALSE
    /\ log = << >>
    /\ wpc = [w \in Writers |-> "idle"]
    /\ received_data = [w \in Writers |-> << >>]
    /\ mac = [w \in Writers |-> ""]
    /\ data = [w \in Writers |-> None]
    /\ exc = [w \in Writers |-> ""]

InitReader ==
    /\ rpc = "idle"
    /\ current_data = None
    /\ pending_call = [pc |-> "idle", c |-> FALSE, seen |-> 0, before |-> 0]

InitHist ==
    /\ passed = << >>
    /\ last_write = [m \in AllMacs |-> None]
    /\ returned = {}
    /\ returned_at_call = {}
    /\ snap_view = EmptyDict
    /\ list_at_acquire = EmptyDict
    /\ calls_left = MaxRecords

\* --------------------------------------- SensorThread._receive_sensor_data
\* The receiver builds the argument and calls the callback.  The data dict is
\* a new object of the receiver's; the history notes what was passed.
MakeArgument(shape, m, ref) ==
    CASE shape = "pair" -> << m, ref >>
      [] shape = "single" -> << m >>
      [] shape = "none_data" -> << m, None >>
      [] shape = "bad_key" -> << UnhashableKey, ref >>

RsdCall(w) ==
    /\ wpc[w] = "idle"
    /\ thd_alive
    /\ calls_left > 0
    /\ calls_left' = calls_left - 1
    /\ \E a \in ArgumentSamples :
          LET shape == a.shape
              m == a.mac
              f == a.fields
          IN
          /\ readings' = Append(readings, f)
          /\ passed' = Append(passed, a)
          /\ received_data' = [received_data EXCEPT ![w] = MakeArgument(shape, m, Len(readings) + 1)]
    /\ wpc' = [wpc EXCEPT ![w] = "acquire"]
    /\ UNCHANGED << data_point_count, dicts, list_lock, pending_sensor_changes, log, mac, data, exc >>
    /\ UNCHANGED << readerVars, now, backlightVars, monVars, last_write, returned, returned_at_call, snap_view, list_at_acquire >>

\* Faulty variant: the lock is not taken.
LockAcquireNot(lock, w) == lock

\* line 77: self._list_lock.acquire() blocks until the lock is free
LockAcquire(lock, w) == w

RsdAcquire(w) ==
    /\ wpc[w] = "acquire"
    /\ list_lock = Free
    /\ list_lock' = LockAcquire(list_lock, w)
    /\ list_at_acquire' = dicts[ListId]
    /\ wpc' = [wpc EXCEPT ![w] = "count"]
    /\ UNCHANGED << data_point_count, dicts, readings, pending_sensor_changes, log, received_data, mac, data, exc >>
    /\ UNCHANGED << readerVars, now, backlightVars, monVars, passed, last_write, returned, returned_at_call, snap_view, calls_left >>

\* line 79: self._data_point_count += 1
RsdCount(w) ==
    /\ wpc[w] = "count"
    /\ data_point_count' = data_point_count + 1
    /\ wpc' = [wpc EXCEPT ![w] = "get_mac"]
    /\ UNCHANGED << dicts, readings, list_lock, pending_sensor_changes, log, received_data, mac, data, exc >>
    /\ UNCHANGED << readerVars, now, backlightVars, histVars, monVars >>

\* Faulty variant: the exception is swallowed without the two error logs.
RaiseSilently(w, what) ==
    /\ exc' = [exc EXCEPT ![w] = what]
    /\ wpc' = [wpc EXCEPT ![w] = "release"]

\* An exception raised inside the try block is caught by "except Exception".
Raise(w, what) ==
    /\ exc' = [exc EXCEPT ![w] = what]
    /\ wpc' = [wpc EXCEPT ![w] = "log_error1"]

\* line 81: mac = received_data[0]
RsdGetMac(w) ==
    /\ wpc[w] = "get_mac"
    /\ IF Len(received_data[w]) >= 1
       THEN /\ mac' = [mac EXCEPT ![w] = received_data[w][1]]
            /\ wpc' = [wpc EXCEPT ![w] = "get_data"]
            /\ UNCHANGED exc
       ELSE /\ Raise(w, "IndexError")
            /\ UNCHANGED mac
    /\ UNCHANGED << data_point_count, dicts, readings, list_lock, pending_sensor_changes, log, received_data, data >>
    /\ UNCHANGED << readerVars, now, backlightVars, histVars, monVars >>

\* line 82: data = received_data[1]
RsdGetData(w) ==
    /\ wpc[w] = "get_data"
    /\ IF Len(received_data[w]) >= 2
       THEN /\ data' = [data EXCEPT ![w] = received_data[w][2]]
            /\ wpc' = [wpc EXCEPT ![w] = "timestamp"]
            /\ UNCHANGED exc
       ELSE /\ Raise(w, "IndexError")
            /\ UNCHANGED data
    /\ UNCHANGED << data_point_count, dicts, readings, list_lock, pending_sensor_changes, log, received_data, mac >>
    /\ UNCHANGED << readerVars, now, backlightVars, histVars, monVars >>

\* line 85: data["timestamp"] = datetime.now()
SetTimestamp(reading, t) ==
    [f \in (DOMAIN reading) \cup {"timestamp"} |-> IF f = "timestamp" THEN t ELSE reading[f]]

RsdTimestamp(w) ==
    /\ wpc[w] = "timestamp"
    /\ IF data[w] # None
       THEN /\ readings' = [readings EXCEPT ![data[w]] = SetTimestamp(readings[data[w]], now)]
            /\ wpc' = [wpc EXCEPT ![w] = "store"]
            /\ UNCHANGED exc
       ELSE /\ Raise(w, "TypeError")
            /\ UNCHANGED readings
    /\ UNCHANGED << data_point_count, dicts, list_lock, pending_sensor_changes, log, received_data, mac, data >>
    /\ UNCHANGED << readerVars, now, backlightVars, histVars, monVars >>

\* Faulty variant: an entry already present is kept (first write wins).
StoreIfAbsent(ds, k, ref) ==
    IF k \in DictKeys(ds[ListId]) THEN ds ELSE [ds EXCEPT ![ListId] = DictSet(ds[ListId], k, ref)]

\* Faulty variant: the backing dict is rebuilt from the new entry alone.
StoreAlone(ds, k, ref) == [ds EXCEPT ![ListId] = DictSet(EmptyDict, k, ref)]

\* line 86: self._sensor_list[mac] = data
StoreReading(ds, k, ref) == [ds EXCEPT ![ListId] = DictSet(ds[ListId], k, ref)]

RsdStore(w) ==
    /\ wpc[w] = "store"
    /\ IF Hashable(mac[w])
       THEN /\ dicts' = StoreReading(dicts, mac[w], data[w])
            /\ last_write' = [last_write EXCEPT ![received_data[w][1]] = received_data[w][2]]
            /\ wpc' = [wpc EXCEPT ![w] = "pending"]
            /\ UNCHANGED exc
       ELSE /\ Raise(w, "TypeError")
            /\ UNCHANGED << dicts, last_write >>
    /\ UNCHANGED << data_point_count, readings, list_lock, pending_sensor_changes, log, received_data, mac, data >>
    /\ UNCHANGED << readerVars, now, backlightVars, monVars, passed, returned, returned_at_call, snap_view, list_at_acquire, calls_left >>

\* line 87: self._pending_sensor_changes = True
RsdPending(w) ==
    /\ wpc[w] = "pending"
    /\ pending_sensor_changes' = TRUE
    /\ wpc' = [wpc EXCEPT ![w] = "log_debug"]
    /\ UNCHANGED << data_point_count, dicts, readings, list_lock, log, received_data, mac, data, exc >>
    /\ UNCHANGED << readerVars, now, backlightVars, histVars, monVars >>

\* line 88: self._logger.debug(f"Data received from {mac}")
RsdLogDebug(w) ==
    /\ wpc[w] = "log_debug"
    /\ log' = Append(log, LogEntry("debug", w, mac[w]))
    /\ wpc' = [wpc EXCEPT ![w] = "release"]
    /\ UNCHANGED << data_point_count, dicts, readings, list_lock, pending_sensor_changes, received_data, mac, data, exc >>
    /\ UNCHANGED << readerVars, now, backlightVars, histVars, monVars >>

\* line 90: self._logger.error("Unhandled exception caught in ...")
RsdLogError1(w) ==
    /\ wpc[w] = "log_error1"
    /\ log' = Append(log, LogEntry("error", w, "Unhandled exception caught"))
    /\ wpc' = [wpc EXCEPT ![w] = "log_error2"]
    /\ UNCHANGED << data_point_count, dicts, readings, list_lock, pending_sensor_changes, received_data, mac, data, exc >>
    /\ UNCHANGED << readerVars, now, backlightVars, histVars, monVars >>

\* line 91: self._logger.error(str(ex))
RsdLogError2(w) ==
    /\ wpc[w] = "log_error2"
    /\ log' = Append(log, LogEntry("error", w, exc[w]))
    /\ wpc' = [wpc EXCEPT ![w] = "release"]
    /\ UNCHANGED << data_point_count, dicts, readings, list_lock, pending_sensor_changes, received_data, mac, data, exc >>
    /\ UNCHANGED << readerVars, now, backlightVars, histVars, monVars >>

\* Faulty variant: the lock is kept.
LockReleaseNot(lock, w) == lock

\* line 93: finally: self._list_lock.release(); the call returns
LockRelease(lock, w) == Free

RsdRelease(w) ==
    /\ wpc[w] = "release"
    /\ list_lock' = LockRelease(list_lock, w)
    /\ returned' = IF exc[w] = "" THEN returned \cup {mac[w]} ELSE returned
    /\ wpc' = [wpc EXCEPT ![w] = "idle"]
    /\ received_data' = [received_data EXCEPT ![w] = << >>]
    /\ mac' = [mac EXCEPT ![w] = ""]
    /\ data' = [data EXCEPT ![w] = None]
    /\ exc' = [exc EXCEPT ![w] = ""]
    /\ UNCHANGED << data_point_count, dicts, readings, pending_sensor_changes, log >>
    /\ UNCHANGED << readerVars, now, backlightVars, monVars, passed, last_write, returned_at_call, snap_view, list_at_acquire, calls_left >>

ReceiveSensorData(w) ==
    \/ RsdCall(w)
    \/ RsdAcquire(w)
    \/ RsdCount(w)
    \/ RsdGetMac(w)
    \/ RsdGetData(w)
    \/ RsdTimestamp(w)
    \/ RsdStore(w)
    \/ RsdPending(w)
    \/ RsdLogDebug(w)
    \/ RsdLogError1(w)
    \/ RsdLogError2(w)
    \/ RsdRelease(w)

\* ------------------------------------------------ SensorThread.sensor_list
\* Faulty variant: the backing dict itself is handed out.
CopyNone(ds, src) == [dicts |-> ds, ref |-> src]

\* Faulty variant: a copy made key by key that misses a key when there are several.
CopyTorn(ds, src) ==
    [dicts |-> [ds EXCEPT ![CopyId] = IF Len(ds[src]) > 1 THEN Tail(ds[src]) ELSE ds[src]],
     ref |-> CopyId]

\* copy.copy(d): a new dict object with the items of d (the data dicts shared).
CopyCopy(ds, src) ==
    [dicts |-> [ds EXCEPT ![CopyId] = ds[src]], ref |-> CopyId]

\* The caller evaluates the property: the call begins.  A caller that holds
\* an earlier copy drops it when the new one is bound.
SensorListCall ==
    /\ rpc \in {"idle", "ret"}
    /\ rpc' = "copy"
    /\ returned_at_call' = returned
    /\ UNCHANGED << cacheVars, current_data, pending_call, now, backlightVars >>
    /\ UNCHANGED << passed, last_write, returned, snap_view, list_at_acquire, calls_left >>

\* line 144: return copy.copy(self._sensor_list), with no lock taken
SensorListCopy ==
    /\ rpc = "copy"
    /\ LET r == CopyCopy(dicts, ListId)
       IN /\ dicts' = r.dicts
          /\ current_data' = r.ref
          /\ snap_view' = View(r.dicts, readings, r.ref)
    /\ rpc' = "ret"
    /\ UNCHANGED << data_point_count, readings, list_lock, pending_sensor_changes, log,
                    wpc, received_data, mac, data, exc >>
    /\ UNCHANGED << pending_call, now, backlightVars, passed, last_write, returned, returned_at_call, list_at_acquire, calls_left >>

SensorList ==
    \/ SensorListCall
    \/ SensorListCopy

\* -------------------------------------------- SensorThread.pending_changes
\* lines 123-133, read by the thread that consumes the cache.
\* The caller evaluates the property: the call begins.
PcCall ==
    /\ pending_call.pc = "idle"
    /\ pending_call' = [pending_call EXCEPT !.pc = "acquire"]
    /\ UNCHANGED << cacheVars, rpc, current_data, now, histVars, backlightVars, monVars >>

\* line 129: self._list_lock.acquire() blocks until the lock is free
PcAcquire ==
    /\ pending_call.pc = "acquire"
    /\ list_lock = Free
    /\ list_lock' = LockAcquire(list_lock, MonitorThread)
    /\ pending_call' = [pending_call EXCEPT !.pc = "read"]
    /\ UNCHANGED << data_point_count, dicts, readings, pending_sensor_changes, log,
                    wpc, received_data, mac, data, exc >>
    /\ UNCHANGED << rpc, current_data, now, histVars, backlightVars, monVars >>

\* Record calls that have got past line 87: those that have logged their
\* reading (line 88) and those that are about to.
Recorded ==
    Cardinality({i \in 1..Len(log) : log[i].level = "debug" /\ log[i].who \in Writers})
        + Cardinality({w \in Writers : wpc[w] = "log_debug"})

\* line 130: c = self._pending_sensor_changes
PcRead ==
    /\ pending_call.pc = "read"
    /\ pending_call' = [pc |-> "clear", c |-> pending_sensor_changes,
                        seen |-> Recorded, before |-> pending_call.seen]
    /\ UNCHANGED << cacheVars, rpc, current_data, now, histVars, backlightVars, monVars >>

\* line 131: self._pending_sensor_changes = False
PcClear ==
    /\ pending_call.pc = "clear"
    /\ pending_sensor_changes' = FALSE
    /\ pending_call' = [pending_call EXCEPT !.pc = "release"]
    /\ UNCHANGED << data_point_count, dicts, readings, list_lock, log,
                    wpc, received_data, mac, data, exc >>
    /\ UNCHANGED << rpc, current_data, now, histVars, backlightVars, monVars >>

\* lines 132-133: self._list_lock.release(); return c
PcRelease ==
    /\ pending_call.pc = "release"
    /\ list_lock' = LockRelease(list_lock, MonitorThread)
    /\ pending_call' = [pending_call EXCEPT !.pc = "idle"]
    /\ UNCHANGED << data_point_count, dicts, readings, pending_sensor_changes, log,
                    wpc, received_data, mac, data, exc >>
    /\ UNCHANGED << rpc, current_data, now, histVars, backlightVars, monVars >>

PendingChanges ==
    \/ PcCall
    \/ PcAcquire
    \/ PcRead
    \/ PcClear
    \/ PcRelease

\* ---------------------------------------------------------- BacklightState
HoursPerDay == 24
MinutesPerHour == 60
MinutesPerDay == HoursPerDay * MinutesPerHour

DigitChars == << "0", "1", "2", "3", "4", "5", "6", "7", "8", "9" >>
DigitValue(c) == (CHOOSE i \in 1..10 : DigitChars[i] = c) - 1

\* A time of day written the way the configuration file gives it: "HH:MM".
HHMM(minute_of_day) ==
    LET h == minute_of_day \div MinutesPerHour
        m == minute_of_day % MinutesPerHour
    IN << DigitChars[(h \div 10) + 1], DigitChars[(h % 10) + 1], ":",
          DigitChars[(m \div 10) + 1], DigitChars[(m % 10) + 1] >>

\* datetime.strptime(s, "%H:%M"): the hour and the minute of a two-digit HH:MM.
Strptime(s) ==
    [hour |-> DigitValue(s[1]) * 10 + DigitValue(s[2]),
     minute |-> DigitValue(s[4]) * 10 + DigitValue(s[5])]

\* lines 30, 32 and 55: (dt.hour * 60) + dt.minute
MinuteOf(dt) == (dt.hour * 60) + dt.minute

\* Faulty variant: the loop runs up to and including the on time.
LoopCondUpTo(off, on) == off <= on

\* line 35: while off_minute != on_minute
LoopCond(off, on) == off # on

\* Faulty variant: the minute is advanced before it is marked.
MarkOffLate(table, minute) ==
    [table EXCEPT ![IF minute + 1 >= MinutesPerDay THEN 0 ELSE minute + 1] = 0]

\* line 36: self._backlight_state_table[off_minute] = 0
MarkOff(table, minute) == [table EXCEPT ![minute] = 0]

\* lines 37-39: off_minute += 1, wrapping at the length of the table
NextMinute(table, minute) ==
    IF minute + 1 >= Cardinality(DOMAIN table) THEN 0 ELSE minute + 1

\* The default arguments of SensorMonitor.__init__ (sensor_monitor.py 37-38).
DefaultOffAt == HHMM(23 * MinutesPerHour)
DefaultOnAt == HHMM(6 * MinutesPerHour)

\* No query made yet.
NoTime == [day |-> -1, hour |-> 0, minute |-> 0, second |-> 0]

\* Before the constructor runs: only its arguments are set.
InitBacklight(off, on) ==
    /\ off_at = off
    /\ on_at = on
    /\ backlight_state_table = << >>
    /\ on_minute = 0
    /\ off_minute = 0
    /\ bpc = "new"
    /\ for_time_dt = NoTime
    /\ backlight_query = 1
    /\ sched_in = [off |-> MinuteOf(Strptime(off)), on |-> MinuteOf(Strptime(on))]
    /\ off_marks = 0

\* lines 26-32: the table is all on, the two arguments are parsed
BacklightStateNew ==
    /\ bpc = "new"
    /\ backlight_state_table' = [i \in 0..(MinutesPerDay - 1) |-> 1]
    /\ on_minute' = MinuteOf(Strptime(on_at))
    /\ off_minute' = MinuteOf(Strptime(off_at))
    /\ bpc' = "loop"
    /\ UNCHANGED << off_at, on_at, for_time_dt, backlight_query, sched_in, off_marks >>
    /\ UNCHANGED << cacheVars, readerVars, now, histVars, monVars >>

\* lines 35-39: one pass of the loop body
BacklightStateLoop ==
    /\ bpc = "loop"
    /\ LoopCond(off_minute, on_minute)
    /\ backlight_state_table' = MarkOff(backlight_state_table, off_minute)
    /\ off_minute' = NextMinute(backlight_state_table, off_minute)
    /\ off_marks' = off_marks + 1
    /\ UNCHANGED << off_at, on_at, on_minute, bpc, for_time_dt, backlight_query, sched_in >>
    /\ UNCHANGED << cacheVars, readerVars, now, histVars, monVars >>

\* line 35: the loop condition fails and the constructor returns
BacklightStateDone ==
    /\ bpc = "loop"
    /\ ~LoopCond(off_minute, on_minute)
    /\ bpc' = "done"
    /\ UNCHANGED << off_at, on_at, backlight_state_table, on_minute, off_minute, for_time_dt,
                    backlight_query, sched_in, off_marks >>
    /\ UNCHANGED << cacheVars, readerVars, now, histVars, monVars >>

\* lines 49-58: query_backlight_state_dt(for_time_dt)
QueryBacklightStateDt(table, dt) == table[MinuteOf(dt)]

\* The times asked for: every hour and minute of the day, on two days, at the
\* first and at the last second of the minute.
QueryTimes ==
    { [day |-> ds[1], hour |-> h, minute |-> m, second |-> ds[2]] :
         ds \in {<< 0, 0 >>, << 1, 59 >>}, h \in 0..(HoursPerDay - 1), m \in 0..(MinutesPerHour - 1) }

BacklightQuery ==
    /\ bpc = "done"
    /\ \E dt \in QueryTimes :
          /\ for_time_dt' = dt
          /\ backlight_query' = QueryBacklightStateDt(backlight_state_table, dt)
    /\ bpc' = "queried"
    /\ UNCHANGED << off_at, on_at, backlight_state_table, on_minute, off_minute, sched_in, off_marks >>
    /\ UNCHANGED << cacheVars, readerVars, now, histVars, monVars >>

\* The caller has used the answer; the table is ready for the next query.
BacklightQueryReturn ==
    /\ bpc = "queried"
    /\ bpc' = "done"
    /\ for_time_dt' = NoTime
    /\ backlight_query' = 1
    /\ UNCHANGED << off_at, on_at, backlight_state_table, on_minute, off_minute, sched_in, off_marks >>
    /\ UNCHANGED << cacheVars, readerVars, now, histVars, monVars >>

\* ------------------------------------------------------------------ text
\* A string is the sequence of its characters.  The characters the program
\* prints, in code point order.
Alphabet ==
    << " ", "-", ".", "0", "1", "2", "3", "4", "5", "6", "7", "8", "9", ":",
       "A", "B", "C", "D", "E", "F", "G", "H", "I", "J", "K", "L", "M",
       "N", "O", "P", "Q", "R", "S", "T", "U", "V", "W", "X", "Y", "Z",
       "a", "b", "c", "d", "e", "f", "g", "h", "i", "j", "k", "l", "m",
       "n", "o", "p", "q", "r", "s", "t", "u", "v", "w", "x", "y", "z" >>
CharOrder(c) == CHOOSE i \in 1..Len(Alphabet) : Alphabet[i] = c

Repeat(c, n) == [i \in 1..n |-> c]

\* a < b on Python strings: by the first character that differs, a proper
\* prefix being the smaller.
StrLess(a, b) ==
    LET n == IF Len(a) < Len(b) THEN Len(a) ELSE Len(b)
        diff == {i \in 1..n : a[i] # b[i]}
    IN IF diff = {}
       THEN Len(a) < Len(b)
       ELSE LET i == CHOOSE j \in diff : \A k \in diff : j <= k
            IN CharOrder(a[i]) < CharOrder(b[i])

\* The decimal digits of a natural number.
RECURSIVE DecimalDigits(_)
DecimalDigits(n) ==
    IF n < 10
    THEN << DigitChars[n + 1] >>
    ELSE Append(DecimalDigits(n \div 10), DigitChars[(n % 10) + 1])

\* f"{n:4d}", f"{n:02d}": right-justified to the width, never cut.
FormatD(n, width, fill) ==
    LET body == DecimalDigits(n)
    IN IF Len(body) >= width THEN body ELSE Repeat(fill, width - Len(body)) \o body

\* f"{s:7s}": left-justified to the width, never cut.
FormatS(s, width) ==
    IF Len(s) >= width THEN s ELSE s \o Repeat(" ", width - Len(s))

\* f"{x:5.1f}" for a number given in tenths: sign, integer part, one decimal.
FormatF(tenths, width) ==
    LET abs == IF tenths < 0 THEN 0 - tenths ELSE tenths
        body == (IF tenths < 0 THEN << "-" >> ELSE << >>)
                \o DecimalDigits(abs \div 10) \o << "." >> \o << DigitChars[(abs % 10) + 1] >>
    IN IF Len(body) >= width THEN body ELSE Repeat(" ", width - Len(body)) \o body

\* ------------------------------------------------------------------ clock
SecondsPerMinute == 60
SecondsPerHour == SecondsPerMinute * MinutesPerHour
SecondsPerDay == SecondsPerHour * HoursPerDay

\* The clock counts seconds from midnight of the first day of ClockEpoch.
ClockEpoch == [year |-> 2024, month |-> 1]
TimeOf(day, hour, minute, second) ==
    day * SecondsPerDay + hour * SecondsPerHour + minute * SecondsPerMinute + second

\* datetime.datetime.now(): the fields of the time the clock shows.
DateTime(t) ==
    [day |-> t \div SecondsPerDay,
     hour |-> (t % SecondsPerDay) \div SecondsPerHour,
     minute |-> (t % SecondsPerHour) \div SecondsPerMinute,
     second |-> t % SecondsPerMinute]

\* timedelta.seconds of the difference of two times: the seconds within the
\* day, the whole days being kept in timedelta.days.
TimedeltaSeconds(delta) == delta % SecondsPerDay

\* ------------------------------------------------- SensorMonitor.__init__
DefaultOfflineTime == 600
Rows == 4
Cols == 20

\* The update_interval of the configuration file, seconds.
IntervalSamples == << 30 >>

EmptyConfig == [m \in {} |-> [name |-> << >>]]
\* The configurations the program is started with: the defaults, one with
\* centigrade and a named sensor, one with the diagnostic dump enabled.
ConfigSamples ==
    { [page_interval |-> IntervalSamples[1], offline_time |-> DefaultOfflineTime, temperature_format |-> "F", debug_sensors |-> FALSE,
       sensor_config |-> EmptyConfig, backlight_off_time |-> DefaultOffAt, backlight_on_time |-> DefaultOnAt],
      [page_interval |-> IntervalSamples[1], offline_time |-> DefaultOfflineTime, temperature_format |-> "C", debug_sensors |-> FALSE,
       sensor_config |-> [m \in {MacSamples[2]} |-> [name |-> << "A", "t", "t", "i", "c" >>]],
       backlight_off_time |-> DefaultOffAt, backlight_on_time |-> DefaultOnAt],
      [page_interval |-> IntervalSamples[1], offline_time |-> DefaultOfflineTime, temperature_format |-> "F", debug_sensors |-> TRUE,
       sensor_config |-> EmptyConfig, backlight_off_time |-> DefaultOffAt, backlight_on_time |-> DefaultOnAt] }
DefaultConfig ==
    CHOOSE c \in ConfigSamples :
        c.temperature_format = "F" /\ ~c.debug_sensors /\ c.sensor_config = EmptyConfig

NoFile == [exists |-> FALSE, closed |-> TRUE, keys |-> {}]
BlankRows == [r \in 1..Rows |-> << >>]

\* The fields of a SensorMonitor that has the given known sensors and is
\* about to test the condition of its loop; the panel as LCD() leaves it.
MonitorFields(cfg, known) ==
    /\ page_interval = cfg.page_interval
    /\ offline_time = cfg.offline_time
    /\ temperature_format = cfg.temperature_format
    /\ debug_sensors = cfg.debug_sensors
    /\ sensor_config = cfg.sensor_config
    /\ known_sensors = known
    /\ terminate_monitor = FALSE
    /\ mpc = "while"
    /\ mexc = ""
    /\ mon_log = << >>
    /\ display_lines = << >>
    /\ line_idx = 0
    /\ line_num = 0
    /\ number_sensors_to_display = 0
    /\ dump_file = NoFile
    /\ lcd_backlight = 1
    /\ lcd_rows = BlankRows
    /\ cycle_calls = << >>
    /\ cycles = 0
    /\ snapshots = 0
    /\ cycle_pauses = 0
    /\ asleep_request = FALSE

\* lines 51-67: the fields of a new SensorMonitor
InitMonitor(cfg) == MonitorFields(cfg, << >>)

\* lines 215-220 and 250-277: MainProgram has started the ingestion thread,
\* opened the LCD, installed its SIGTERM handler and called run
InitMain ==
    /\ ppc = "run"
    /\ cpc = "none"
    /\ handler = 0
    /\ cleanup_complete = FALSE
    /\ runflag = TRUE
    /\ thd_alive = TRUE
    /\ lcd_open = TRUE
    /\ sigterms = 0
    /\ cleanup_trace = << >>

\* BacklightState(off_at, on_at) run to its end: the loop of lines 35-39 is
\* left after fewer than MinutesPerDay passes, and a pass made after the
\* loop condition has failed changes nothing.
ConstructorPass(st) ==
    IF LoopCond(st.off_minute, st.on_minute)
    THEN [st EXCEPT !.table = MarkOff(st.table, st.off_minute),
                    !.off_minute = NextMinute(st.table, st.off_minute),
                    !.marks = st.marks + 1]
    ELSE st

RECURSIVE ConstructorPasses(_, _)
ConstructorPasses(st, n) ==
    IF st.marks >= 0 /\ n > 1
    THEN LET half == ConstructorPasses(st, n \div 2)
         IN ConstructorPasses(half, n - (n \div 2))
    ELSE IF n = 1 THEN ConstructorPass(st) ELSE st

BacklightStateInit(off, on) ==
    ConstructorPasses([table |-> [i \in 0..(MinutesPerDay - 1) |-> 1],
                       on_minute |-> MinuteOf(Strptime(on)),
                       off_minute |-> MinuteOf(Strptime(off)),
                       marks |-> 0], MinutesPerDay)

\* ------------------------------------------------------------ the LCD panel
\* A call of the driver as run makes it.
LcdCall(op, state, line, string) == [op |-> op, state |-> state, line |-> line, string |-> string]

\* i2c_lcd_driver.py 219-223: backlight(state)
Backlight(light, state) == IF state = 1 THEN 1 ELSE IF state = 0 THEN 0 ELSE light

\* i2c_lcd_driver.py 156-170: every command or character written to the
\* panel is sent with the backlight bit set
LcdWrite(light) == 1

\* i2c_lcd_driver.py 214-216: lcd_clear()
LcdClear(rows) == BlankRows

\* i2c_lcd_driver.py 177-203: lcd_display_string(string, line, 0).  An empty
\* string is a row of spaces; a line outside 1..4 starts at the first row.
\* The characters replace the ones shown from the first column on.
LcdDisplayString(rows, string, line) ==
    LET text == IF Len(string) = 0 THEN Repeat(" ", Cols) ELSE string
        row == IF line \in 1..Rows THEN line ELSE 1
    IN [rows EXCEPT ![row] = text \o SubSeq(@, Len(text) + 1, Len(@))]

\* ------------------------------------------------------ SensorMonitor.run
\* Sensor ids of other shapes: without separators, with another separator,
\* of five characters, of four, of two.
IdTexts ==
    [id \in {"AABBCCDDEEFF", "AA-BB-CC-DD-EE-FF", "EE:FF", "E:FF", "FF"} |->
        CASE id = "AABBCCDDEEFF" -> << "A", "A", "B", "B", "C", "C", "D", "D", "E", "E", "F", "F" >>
          [] id = "AA-BB-CC-DD-EE-FF" ->
                << "A", "A", "-", "B", "B", "-", "C", "C", "-", "D", "D", "-", "E", "E", "-", "F", "F" >>
          [] id = "EE:FF" -> << "E", "E", ":", "F", "F" >>
          [] id = "E:FF" -> << "E", ":", "F", "F" >>
          [] id = "FF" -> << "F", "F" >>]

\* The characters of a sample mac.
MacText(m) ==
    IF m \in DOMAIN IdTexts
    THEN IdTexts[m]
    ELSE << "A", "A", ":", "B", "B", ":", "C", "C", ":", "D", "D", ":", "E", "E", ":", "0",
            DigitChars[(CHOOSE i \in 1..Len(MacSamples) : MacSamples[i] = m) + 1] >>

\* s[start:] for a start that may be negative.
SliceFrom(s, start) ==
    LET from == IF start >= 0 THEN start
                ELSE IF start + Len(s) >= 0 THEN start + Len(s) ELSE 0
    IN SubSeq(s, from + 1, Len(s))

\* lines 79-88: _mac_name(mac)
MacName(config, m) ==
    IF m \in DOMAIN config
    THEN config[m].name
    ELSE SelectSeq(SliceFrom(MacText(m), Len(MacText(m)) - 5), LAMBDA c : c # ":")

\* lines 90-104: _now_str(now_dt)
NowStr(now_dt) ==
    LET ampm == IF now_dt.hour >= 12 THEN << "p", "m" >> ELSE << "a", "m" >>
        hour == IF now_dt.hour > 12 THEN now_dt.hour - 12 ELSE now_dt.hour
    IN FormatD(ClockEpoch.year, 4, " ") \o << "-" >> \o FormatD(ClockEpoch.month, 2, "0")
       \o << "-" >> \o FormatD(now_dt.day + 1, 2, "0") \o << " ", " " >>
       \o FormatD(hour, 2, " ") \o << ":" >> \o FormatD(now_dt.minute, 2, "0")
       \o << " " >> \o ampm

\* lines 73-77: to_fahrenheit, on tenths of a degree
ToFahrenheit(tenths) == 320 + ((tenths * 18) \div 10)

\* A log call of the monitor loop.
MonLogEntry(level, text, m) == [level |-> level, who |-> MonitorThread, text |-> text, mac |-> m]

\* An exception raised inside the try block of run is caught by one of its
\* except clauses.
MonRaise(what) ==
    /\ mexc' = what
    /\ mpc' = "except"

\* Faulty variant: the loop goes on whatever the flag says.
LoopAlways(flag) == TRUE

\* line 167: while not self._terminate_monitor
LoopCondition(flag) == ~flag

\* lines 157 and 198: the positions at which run is in sleep(self._page_interval)
SleepPositions == {"page_sleep", "sleep"}

\* lines 69-70: terminate(), called while run is under way
Terminate ==
    /\ mpc # "exit"
    /\ ~terminate_monitor
    /\ terminate_monitor' = TRUE
    /\ asleep_request' = (asleep_request \/ mpc \in SleepPositions)
    /\ UNCHANGED << cacheVars, readerVars, now, histVars, backlightVars >>
    /\ UNCHANGED << mainVars, configVars, textVars, mon_log, known_sensors, mpc, mexc, displayVars, dump_file, lcdVars, cycles, snapshots, cycle_pauses >>

\* line 167: while not self._terminate_monitor, the body is entered
MonWhileBody ==
    /\ mpc = "while"
    /\ bpc = "done"
    /\ LoopCondition(terminate_monitor)
    /\ cycles < MaxCycles
    /\ cycles' = cycles + 1
    /\ cycle_calls' = << >>
    /\ cycle_pauses' = 0
    /\ mpc' = "sensor_list"
    /\ UNCHANGED << cacheVars, readerVars, now, histVars, backlightVars >>
    /\ UNCHANGED << mainVars, asleep_request, configVars, textVars, mon_log, known_sensors, terminate_monitor, mexc, displayVars, dump_file,
                    lcd_backlight, lcd_rows, snapshots >>

\* line 167: the flag is set and run returns
MonWhileExit ==
    /\ mpc = "while"
    /\ bpc = "done"
    /\ ~LoopCondition(terminate_monitor)
    /\ mpc' = "exit"
    /\ UNCHANGED << cacheVars, readerVars, now, histVars, backlightVars >>
    /\ UNCHANGED << mainVars, asleep_request, configVars, textVars, mon_log, known_sensors, terminate_monitor, mexc, displayVars, dump_file,
                    lcdVars, cycles, snapshots, cycle_pauses >>

\* line 169: current_data = self._the_sensor_thread.sensor_list, the call
MonSensorListCall ==
    /\ mpc = "sensor_list"
    /\ SensorListCall
    /\ mpc' = "sensor_list_copy"
    /\ UNCHANGED << mainVars, asleep_request, configVars, textVars, mon_log, known_sensors, terminate_monitor, mexc, displayVars, dump_file,
                    lcdVars, cycles, snapshots, cycle_pauses >>

\* line 169: the copy is made and bound to current_data
MonSensorListCopy ==
    /\ mpc = "sensor_list_copy"
    /\ SensorListCopy
    /\ mpc' = "dump"
    /\ snapshots' = snapshots + 1
    /\ UNCHANGED << mainVars, asleep_request, configVars, textVars, mon_log, known_sensors, terminate_monitor, mexc, displayVars, dump_file,
                    lcdVars, cycles, cycle_pauses >>

\* json can write the numbers of a reading, not the datetime the callback added.
Serializable(reading) == "timestamp" \notin DOMAIN reading

\* lines 173-175: open("ruuvitag.json", "w"), dump(current_data, fp), fp.close().
\* The file is emptied; the sensors are written in turn until a value cannot
\* be written, which raises TypeError and leaves the file open.
JsonDump(view, order) ==
    LET bad == {i \in 1..Len(order) : ~Serializable(view[order[i]])}
    IN IF bad = {}
       THEN [file |-> [exists |-> TRUE, closed |-> TRUE, keys |-> DOMAIN view], exc |-> ""]
       ELSE LET first == CHOOSE i \in bad : \A j \in bad : i <= j
            IN [file |-> [exists |-> TRUE, closed |-> FALSE, keys |-> {order[i] : i \in 1..(first - 1)}],
                exc |-> "TypeError"]

\* lines 171-175: the diagnostic dump
MonDump ==
    /\ mpc = "dump"
    /\ IF debug_sensors
       THEN LET r == JsonDump(View(dicts, readings, current_data), DictOrder(dicts[current_data]))
            IN /\ dump_file' = r.file
               /\ IF r.exc = ""
                  THEN mpc' = "known_add" /\ UNCHANGED mexc
                  ELSE MonRaise(r.exc)
       ELSE /\ mpc' = "known_add"
            /\ UNCHANGED << dump_file, mexc >>
    /\ UNCHANGED << cacheVars, readerVars, now, histVars, backlightVars >>
    /\ UNCHANGED << mainVars, asleep_request, configVars, textVars, mon_log, known_sensors, terminate_monitor, displayVars, lcdVars, cycles, snapshots, cycle_pauses >>

Range(s) == {s[i] : i \in 1..Len(s)}

\* Faulty variant: every mac of the snapshot is appended, known or not.
AddKnownAll(known, keys, i) == known \o SubSeq(keys, i, Len(keys))

\* lines 178-181: the macs of the snapshot not yet known are appended, in turn
RECURSIVE AddKnown(_, _, _)
AddKnown(known, keys, i) ==
    IF i > Len(keys)
    THEN known
    ELSE AddKnown(IF keys[i] \in Range(known) THEN known ELSE Append(known, keys[i]), keys, i + 1)

MonKnownAdd ==
    /\ mpc = "known_add"
    /\ LET keys == DictOrder(dicts[current_data])
           new == SelectSeq(keys, LAMBDA m : m \notin Range(known_sensors))
       IN /\ known_sensors' = AddKnown(known_sensors, keys, 1)
          /\ mon_log' = mon_log \o [i \in 1..Len(new) |-> MonLogEntry("info", "Monitoring sensor", new[i])]
    /\ mpc' = "known_remove"
    /\ UNCHANGED << cacheVars, readerVars, now, histVars, backlightVars >>
    /\ UNCHANGED << mainVars, asleep_request, configVars, textVars, terminate_monitor, mexc, displayVars, dump_file, lcdVars, cycles, snapshots, cycle_pauses >>

\* list.remove(x): the first item equal to x is taken out.
ListRemove(s, x) ==
    LET at == CHOOSE i \in 1..Len(s) : s[i] = x /\ \A j \in 1..(i - 1) : s[j] # x
    IN SubSeq(s, 1, at - 1) \o SubSeq(s, at + 1, Len(s))

\* lines 183-186: for mac in self._known_sensors, removing from the list that
\* is being iterated: the iteration goes by position, so the item that moves
\* into the place of a removed one is passed over.
RECURSIVE RemoveKnown(_, _, _, _)
RemoveKnown(known, keys, i, gone) ==
    IF i > Len(known)
    THEN [known |-> known, gone |-> gone]
    ELSE IF known[i] \notin keys
         THEN RemoveKnown(ListRemove(known, known[i]), keys, i + 1, Append(gone, known[i]))
         ELSE RemoveKnown(known, keys, i + 1, gone)

MonKnownRemove ==
    /\ mpc = "known_remove"
    /\ LET r == RemoveKnown(known_sensors, DictKeys(dicts[current_data]), 1, << >>)
       IN /\ known_sensors' = r.known
          /\ mon_log' = mon_log \o [i \in 1..Len(r.gone) |-> MonLogEntry("info", "has gone offline", r.gone[i])]
    /\ mpc' = "query"
    /\ UNCHANGED << cacheVars, readerVars, now, histVars, backlightVars >>
    /\ UNCHANGED << mainVars, asleep_request, configVars, textVars, terminate_monitor, mexc, displayVars, dump_file, lcdVars, cycles, snapshots, cycle_pauses >>

\* line 190 and backlight.py 41-47: query_backlight_state() asks for the time
\* the clock shows
MonQuery ==
    /\ mpc = "query"
    /\ for_time_dt' = DateTime(now)
    /\ backlight_query' = QueryBacklightStateDt(backlight_state_table, DateTime(now))
    /\ mpc' = "backlight"
    /\ UNCHANGED << off_at, on_at, backlight_state_table, on_minute, off_minute, bpc, sched_in, off_marks >>
    /\ UNCHANGED << cacheVars, readerVars, now, histVars >>
    /\ UNCHANGED << mainVars, asleep_request, configVars, textVars, mon_log, known_sensors, terminate_monitor, mexc, displayVars, dump_file,
                    lcdVars, cycles, snapshots, cycle_pauses >>

\* Faulty variant: the display is updated whatever the schedule says.
TruthyAlways(v) == TRUE

\* line 190: "if" on the table's entry, an int
Truthy(v) == v # 0

\* lines 190-194: the backlight is switched, on with a display update to
\* follow, or off
MonBacklight ==
    /\ mpc = "backlight"
    /\ LET state == IF Truthy(backlight_query) THEN 1 ELSE 0
       IN /\ lcd_backlight' = Backlight(lcd_backlight, state)
          /\ cycle_calls' = Append(cycle_calls, LcdCall("backlight", state, 0, << >>))
          /\ mpc' = IF state = 1 THEN "display_lines" ELSE "sleep"
    /\ UNCHANGED << cacheVars, readerVars, now, histVars, backlightVars >>
    /\ UNCHANGED << mainVars, asleep_request, configVars, textVars, mon_log, known_sensors, terminate_monitor, mexc, displayVars, dump_file,
                    lcd_rows, cycles, snapshots, cycle_pauses >>

\* Faulty variant: a reading as old as offline_time still counts as online.
IsOnlineInclusive(data_age, offline) == TimedeltaSeconds(data_age) <= offline

\* lines 126-128: data_age.seconds < self._offline_time
IsOnline(data_age, offline) == TimedeltaSeconds(data_age) < offline

\* lines 126-140: the line of one sensor at time t, the warning logged for a
\* sensor taken to be offline, the KeyError of a reading without the field.
DisplayLine(m, reading, t, offline, format, config) ==
    LET data_age == t - reading["timestamp"]
        online == IsOnline(data_age, offline)
        missing == online /\ ~({"temperature", "humidity"} \subseteq DOMAIN reading)
        tmp == IF ~online THEN 0
               ELSE IF format = "F" THEN ToFahrenheit(10 * reading["temperature"])
               ELSE 10 * reading["temperature"]
        hum == IF ~online THEN 0 ELSE 10 * reading["humidity"]
    IN IF missing
       THEN [exc |-> "KeyError", warned |-> FALSE, line |-> << >>]
       ELSE [exc |-> "", warned |-> ~online,
             line |-> FormatS(MacName(config, m), 7) \o << " " >> \o FormatF(tmp, 5)
                      \o << " " >> \o FormatF(hum, 5)]

\* lines 121-140: for mac in current_data.keys(), up to the first exception
RECURSIVE DisplayLines(_, _, _, _, _, _, _, _)
DisplayLines(keys, view, i, t, offline, format, config, acc) ==
    IF i > Len(keys)
    THEN acc
    ELSE LET r == DisplayLine(keys[i], view[keys[i]], t, offline, format, config)
         IN IF r.exc # ""
            THEN [acc EXCEPT !.exc = r.exc]
            ELSE DisplayLines(keys, view, i + 1, t, offline, format, config,
                              [acc EXCEPT !.lines = Append(@, r.line),
                                          !.offline = IF r.warned THEN Append(@, keys[i]) ELSE @])

\* line 143: display_lines.sort()
InsertLine(sorted, a_line) ==
    LET k == Cardinality({i \in 1..Len(sorted) : ~StrLess(a_line, sorted[i])})
    IN SubSeq(sorted, 1, k) \o << a_line >> \o SubSeq(sorted, k + 1, Len(sorted))

\* Faulty variant: the rows stay in the order of the snapshot's keys.
Unsorted(lines, n) == lines

\* (the list sorted so far is bound as the element of a set: it is evaluated once)
RECURSIVE SortLines(_, _)
SortLines(lines, n) ==
    IF n = 0
    THEN << >>
    ELSE CHOOSE s \in {InsertLine(sorted, lines[n]) : sorted \in {SortLines(lines, n - 1)}} : TRUE

\* lines 121-146: the lines are generated and sorted
MonDisplayLines ==
    /\ mpc = "display_lines"
    /\ \E r \in {DisplayLines(DictOrder(dicts[current_data]), View(dicts, readings, current_data), 1,
                              now, offline_time, temperature_format, sensor_config,
                              [exc |-> "", lines |-> << >>, offline |-> << >>])} :
          /\ mon_log' = mon_log \o [i \in 1..Len(r.offline) |->
                               MonLogEntry("warning", "appears to be offline", r.offline[i])]
          /\ IF r.exc = ""
             THEN /\ display_lines' = SortLines(r.lines, Len(r.lines))
                  /\ number_sensors_to_display' = Len(r.lines)
                  /\ line_num' = 0
                  /\ line_idx' = 1
                  /\ mpc' = "lcd_clear"
                  /\ UNCHANGED mexc
             ELSE /\ MonRaise(r.exc)
                  /\ UNCHANGED displayVars
    /\ UNCHANGED << cacheVars, readerVars, now, histVars, backlightVars >>
    /\ UNCHANGED << mainVars, asleep_request, configVars, textVars, known_sensors, terminate_monitor, dump_file, lcdVars, cycles, snapshots, cycle_pauses >>

\* line 149: self._the_lcd.lcd_clear()
MonLcdClear ==
    /\ mpc = "lcd_clear"
    /\ lcd_rows' = LcdClear(lcd_rows)
    /\ cycle_calls' = Append(cycle_calls, LcdCall("lcd_clear", 0, 0, << >>))
    /\ mpc' = "time_display"
    /\ lcd_backlight' = LcdWrite(lcd_backlight)
    /\ UNCHANGED << cacheVars, readerVars, now, histVars, backlightVars >>
    /\ UNCHANGED << mainVars, asleep_request, configVars, textVars, mon_log, known_sensors, terminate_monitor, mexc, displayVars, dump_file,
                    cycles, snapshots, cycle_pauses >>

\* line 150 and lines 106-113: _update_time_display()
MonTimeDisplay ==
    /\ mpc = "time_display"
    /\ LET dtstr == NowStr(DateTime(now))
       IN /\ lcd_rows' = LcdDisplayString(lcd_rows, dtstr, Rows)
          /\ cycle_calls' = Append(cycle_calls, LcdCall("lcd_display_string", 0, Rows, dtstr))
    /\ mpc' = "line"
    /\ lcd_backlight' = LcdWrite(lcd_backlight)
    /\ UNCHANGED << cacheVars, readerVars, now, histVars, backlightVars >>
    /\ UNCHANGED << mainVars, asleep_request, configVars, textVars, mon_log, known_sensors, terminate_monitor, mexc, displayVars, dump_file,
                    cycles, snapshots, cycle_pauses >>

\* Faulty variant: the page is turned after every third row.
PageFullAlways(num, left) == num = 2

\* Faulty variant: the page is never turned.
PageFullNever(num, left) == FALSE

\* line 155: if line_num == 2 and number_sensors_to_display > 3
PageFull(num, left) == num = 2 /\ left > 3

\* lines 151-163: one pass of "for a_line in display_lines", up to the sleep
\* of a page that is full
MonLine ==
    /\ mpc = "line"
    /\ line_idx <= Len(display_lines)
    /\ LET a_line == display_lines[line_idx]
       IN /\ lcd_rows' = LcdDisplayString(lcd_rows, a_line, line_num + 1)
          /\ cycle_calls' = Append(cycle_calls, LcdCall("lcd_display_string", 0, line_num + 1, a_line))
    /\ line_idx' = line_idx + 1
    /\ IF PageFull(line_num, number_sensors_to_display)
       THEN /\ mpc' = "page_sleep"
            /\ UNCHANGED line_num
       ELSE /\ line_num' = line_num + 1
            /\ mpc' = "line"
    /\ lcd_backlight' = LcdWrite(lcd_backlight)
    /\ UNCHANGED << cacheVars, readerVars, now, histVars, backlightVars >>
    /\ UNCHANGED << mainVars, asleep_request, configVars, textVars, mon_log, known_sensors, terminate_monitor, mexc, display_lines,
                    number_sensors_to_display, dump_file, cycles, snapshots, cycle_pauses >>

\* line 151: the lines are used up and _update_sensor_display returns
MonLinesDone ==
    /\ mpc = "line"
    /\ line_idx > Len(display_lines)
    /\ mpc' = "sleep"
    /\ UNCHANGED << cacheVars, readerVars, now, histVars, backlightVars >>
    /\ UNCHANGED << mainVars, asleep_request, configVars, textVars, mon_log, known_sensors, terminate_monitor, mexc, displayVars, dump_file,
                    lcdVars, cycles, snapshots, cycle_pauses >>

\* sleep(secs) returns when secs seconds have passed; the other steps of the
\* program take no time on this clock.
Sleep(t, secs) == t + secs

\* line 157: sleep(self._page_interval) returns
MonPageSleep ==
    /\ mpc = "page_sleep"
    /\ now' = Sleep(now, page_interval)
    /\ cycle_pauses' = cycle_pauses + 1
    /\ mpc' = "page_clear"
    /\ UNCHANGED << cacheVars, readerVars, histVars, backlightVars >>
    /\ UNCHANGED << mainVars, asleep_request, configVars, textVars, mon_log, known_sensors, terminate_monitor, mexc, displayVars, dump_file,
                    lcdVars, cycles, snapshots >>

\* lines 158-159: line_num = 0, lcd_clear()
MonPageClear ==
    /\ mpc = "page_clear"
    /\ line_num' = 0
    /\ lcd_rows' = LcdClear(lcd_rows)
    /\ cycle_calls' = Append(cycle_calls, LcdCall("lcd_clear", 0, 0, << >>))
    /\ mpc' = "page_time_display"
    /\ lcd_backlight' = LcdWrite(lcd_backlight)
    /\ UNCHANGED << cacheVars, readerVars, now, histVars, backlightVars >>
    /\ UNCHANGED << mainVars, asleep_request, configVars, textVars, mon_log, known_sensors, terminate_monitor, mexc, display_lines, line_idx,
                    number_sensors_to_display, dump_file, cycles, snapshots, cycle_pauses >>

\* lines 160-162: _update_time_display(), number_sensors_to_display -= 3
MonPageTimeDisplay ==
    /\ mpc = "page_time_display"
    /\ LET dtstr == NowStr(DateTime(now))
       IN /\ lcd_rows' = LcdDisplayString(lcd_rows, dtstr, Rows)
          /\ cycle_calls' = Append(cycle_calls, LcdCall("lcd_display_string", 0, Rows, dtstr))
    /\ number_sensors_to_display' = number_sensors_to_display - 3
    /\ mpc' = "line"
    /\ lcd_backlight' = LcdWrite(lcd_backlight)
    /\ UNCHANGED << cacheVars, readerVars, now, histVars, backlightVars >>
    /\ UNCHANGED << mainVars, asleep_request, configVars, textVars, mon_log, known_sensors, terminate_monitor, mexc, display_lines, line_idx,
                    line_num, dump_file, cycles, snapshots, cycle_pauses >>

\* lines 197-198: first_pass = False, sleep(self._page_interval) returns
MonSleep ==
    /\ mpc = "sleep"
    /\ now' = Sleep(now, page_interval)
    /\ cycle_pauses' = cycle_pauses + 1
    /\ mpc' = "while"
    /\ UNCHANGED << cacheVars, readerVars, histVars, backlightVars >>
    /\ UNCHANGED << mainVars, asleep_request, configVars, textVars, mon_log, known_sensors, terminate_monitor, mexc, displayVars, dump_file,
                    lcdVars, cycles, snapshots >>

\* The positions of run inside its try block.
TryPositions ==
    { "sensor_list", "sensor_list_copy", "dump", "known_add", "known_remove", "query", "backlight",
      "display_lines", "lcd_clear", "time_display", "line", "page_sleep", "page_clear",
      "page_time_display", "sleep" }

\* ctrl-c: KeyboardInterrupt is raised in the main thread, wherever it is in
\* the try block, and lines 200-202 handle it
MonKeyboardInterrupt ==
    /\ mpc \in TryPositions
    /\ mon_log' = Append(mon_log, MonLogEntry("info", "ctrl-c caught in SensorMonitor.run()", ""))
    /\ terminate_monitor' = TRUE
    /\ mpc' = "while"
    /\ UNCHANGED << cacheVars, readerVars, now, histVars, backlightVars >>
    /\ UNCHANGED << mainVars, asleep_request, configVars, textVars, known_sensors, mexc, displayVars, dump_file, lcdVars, cycles, snapshots, cycle_pauses >>

\* The positions at which the next statement is a call of the LCD.
LcdPositions == {"backlight", "lcd_clear", "time_display", "line", "page_clear", "page_time_display"}

\* i2c_lcd_driver.py 44-45: the bus write of an LCD call fails (the panel
\* does not answer) and OSError leaves the call before anything is shown
MonLcdFault ==
    /\ mpc \in LcdPositions
    /\ MonRaise("OSError")
    /\ UNCHANGED << cacheVars, readerVars, now, histVars, backlightVars >>
    /\ UNCHANGED << mainVars, asleep_request, configVars, textVars, mon_log, known_sensors, terminate_monitor, displayVars, dump_file,
                    lcdVars, cycles, snapshots, cycle_pauses >>

\* Faulty variant: the handler leaves the flag as it is and the loop goes on.
FlagKept(flag) == flag

\* line 204: self._terminate_monitor = True
FlagAfterError(flag) == TRUE

\* lines 203-207: except Exception as ex
MonExcept ==
    /\ mpc = "except"
    /\ terminate_monitor' = FlagAfterError(terminate_monitor)
    /\ mon_log' = mon_log \o << MonLogEntry("error", "Unhandled exception is sensor_monitor.main()", ""),
                        MonLogEntry("error", mexc, ""),
                        MonLogEntry("error", "sensor_monitor terminating", "") >>
    /\ mexc' = ""
    /\ mpc' = "while"
    /\ UNCHANGED << cacheVars, readerVars, now, histVars, backlightVars >>
    /\ UNCHANGED << mainVars, asleep_request, configVars, textVars, known_sensors, displayVars, dump_file, lcdVars, cycles, snapshots, cycle_pauses >>

SensorMonitorRun ==
    \/ MonWhileBody
    \/ MonWhileExit
    \/ MonSensorListCall
    \/ MonSensorListCopy
    \/ MonDump
    \/ MonKnownAdd
    \/ MonKnownRemove
    \/ MonQuery
    \/ MonBacklight
    \/ MonDisplayLines
    \/ MonLcdClear
    \/ MonTimeDisplay
    \/ MonLine
    \/ MonLinesDone
    \/ MonPageSleep
    \/ MonPageClear
    \/ MonPageTimeDisplay
    \/ MonSleep
    \/ MonKeyboardInterrupt
    \/ MonExcept

\* ------------------------------------------------------------- MainProgram
\* The bound on the SIGTERM signals delivered is MaxSignals; they are
\* delivered between two statements of the main thread: at these positions
\* of run (the loop condition, the middle of a display update, the closing
\* sleep) and of _clean_up (waiting for the thread, before the LCD is
\* cleared, after it has been closed).
SignalPositions == {"while", "line", "sleep"}
CleanUpSignalPositions == {"join", "lcd_clear", "log"}

\* sensor_monitor.py 279-280: the main thread is in SensorMonitor.run, and in
\* no signal handler
InRun == ppc = "run" /\ handler = 0

\* sensor_thread.py 59-68: run of the ingestion thread returns once get_data
\* has seen the flag cleared; no callback is under way then
ThreadExit ==
    /\ thd_alive
    /\ ~runflag
    /\ wpc[IngestionThread] = "idle"
    /\ thd_alive' = FALSE
    /\ log' = Append(log, LogEntry("info", IngestionThread, "RuuviTagSensor.get_data() ended"))
    /\ UNCHANGED << data_point_count, dicts, readings, list_lock, pending_sensor_changes,
                    wpc, received_data, mac, data, exc >>
    /\ UNCHANGED << readerVars, now, histVars, backlightVars >>
    /\ UNCHANGED << ppc, cpc, handler, cleanup_complete, runflag, lcd_open, sigterms, cleanup_trace >>
    /\ UNCHANGED << asleep_request, configVars, textVars, known_sensors, terminate_monitor, mpc, mexc, mon_log, displayVars, dump_file,
                    lcdVars, cycles, snapshots, cycle_pauses >>

\* lines 279-280: run has returned
RunReturns ==
    /\ InRun
    /\ mpc = "exit"
    /\ ppc' = "check"
    /\ UNCHANGED << cpc, handler, cleanup_complete, runflag, thd_alive, lcd_open, sigterms, cleanup_trace >>
    /\ UNCHANGED << cacheVars, readerVars, now, histVars, backlightVars >>
    /\ UNCHANGED << asleep_request, configVars, textVars, known_sensors, terminate_monitor, mpc, mexc, mon_log, displayVars, dump_file,
                    lcdVars, cycles, snapshots, cycle_pauses >>

\* lines 281-282: ctrl-c outside the try block of SensorMonitor.run, at the
\* loop condition, reaches except KeyboardInterrupt of MainProgram.run
MainKeyboardInterrupt ==
    /\ InRun
    /\ mpc = "while"
    /\ mon_log' = Append(mon_log, MonLogEntry("info", "ctrl-c caught in MainProgram.run()", ""))
    /\ ppc' = "check"
    /\ UNCHANGED << cpc, handler, cleanup_complete, runflag, thd_alive, lcd_open, sigterms, cleanup_trace >>
    /\ UNCHANGED << cacheVars, readerVars, now, histVars, backlightVars >>
    /\ UNCHANGED << asleep_request, configVars, textVars, known_sensors, terminate_monitor, mpc, mexc, displayVars, dump_file,
                    lcdVars, cycles, snapshots, cycle_pauses >>

\* lines 288-290: if not self._cleanup_complete: self._clean_up(); then
\* MainProgram.run returns
MainCheck ==
    /\ ppc = "check"
    /\ handler = 0
    /\ IF cleanup_complete
       THEN ppc' = "stopped" /\ cpc' = "none"
       ELSE ppc' = "clean_up" /\ cpc' = "terminate"
    /\ UNCHANGED << handler, cleanup_complete, runflag, thd_alive, lcd_open, sigterms, cleanup_trace >>
    /\ UNCHANGED << cacheVars, readerVars, now, histVars, backlightVars >>
    /\ UNCHANGED << asleep_request, configVars, textVars, known_sensors, terminate_monitor, mpc, mexc, mon_log, displayVars, dump_file,
                    lcdVars, cycles, snapshots, cycle_pauses >>

\* lines 293-296: SIGTERM is delivered; the handler runs in the main thread,
\* on top of what that thread was doing, logs and calls _clean_up
Sigterm ==
    /\ sigterms < MaxSignals
    /\ ppc # "stopped"
    /\ \/ InRun /\ mpc \in SignalPositions
       \/ ppc = "check" /\ handler = 0
       \/ cpc \in CleanUpSignalPositions
    /\ sigterms' = sigterms + 1
    /\ handler' = handler + 1
    /\ cpc' = "terminate"
    /\ mon_log' = Append(mon_log, MonLogEntry("info", "sensor_monitor terminate signal handled", ""))
    /\ asleep_request' = (asleep_request \/ (InRun /\ mpc \in SleepPositions))
    /\ UNCHANGED << ppc, cleanup_complete, runflag, thd_alive, lcd_open, cleanup_trace >>
    /\ UNCHANGED << cacheVars, readerVars, now, histVars, backlightVars >>
    /\ UNCHANGED << configVars, textVars, known_sensors, terminate_monitor, mpc, mexc, displayVars, dump_file,
                    lcdVars, cycles, snapshots, cycle_pauses >>

\* An exception raised in _clean_up is caught nowhere in the clean-up and in
\* no handler: it leaves every handler the thread is in and comes out where
\* the thread was.  In the try block of SensorMonitor.run it is caught by
\* line 203; elsewhere in run it reaches line 283 of MainProgram.run, which
\* logs it and goes on to line 288; past that it ends the program.
CleanUpRaise(what) ==
    /\ handler' = 0
    /\ cpc' = "none"
    /\ IF ppc = "run" /\ mpc \in TryPositions
       THEN /\ MonRaise(what)
            /\ UNCHANGED << ppc, mon_log >>
       ELSE IF ppc = "run"
       THEN /\ ppc' = "check"
            /\ mon_log' = mon_log \o << MonLogEntry("error", "Unhandled exception is sensor_monitor.run()", ""),
                                        MonLogEntry("error", what, ""),
                                        MonLogEntry("error", "sensor_monitor terminating", "") >>
            /\ UNCHANGED << mpc, mexc >>
       ELSE /\ ppc' = "stopped"
            /\ UNCHANGED << mpc, mexc, mon_log >>

\* ctrl-c while the main thread is in _clean_up: KeyboardInterrupt is raised
\* there and, like any exception of _clean_up, leaves every handler the
\* thread is in.  In the try block of SensorMonitor.run lines 200-202 catch
\* it; elsewhere in run line 281 of MainProgram.run does; in the clean-up of
\* line 290 nothing does, and the program ends.  The interrupt is delivered
\* while _clean_up waits for the ingestion thread.
CleanUpInterruptPositions == {"join"}

CleanUpKeyboardInterrupt ==
    /\ cpc \in CleanUpInterruptPositions
    /\ handler' = 0
    /\ cpc' = "none"
    /\ IF ppc = "run" /\ mpc \in TryPositions
       THEN /\ mon_log' = Append(mon_log, MonLogEntry("info", "ctrl-c caught in SensorMonitor.run()", ""))
            /\ terminate_monitor' = TRUE
            /\ mpc' = "while"
            /\ UNCHANGED ppc
       ELSE IF ppc = "run"
       THEN /\ mon_log' = Append(mon_log, MonLogEntry("info", "ctrl-c caught in MainProgram.run()", ""))
            /\ ppc' = "check"
            /\ UNCHANGED << mpc, terminate_monitor >>
       ELSE /\ ppc' = "stopped"
            /\ UNCHANGED << mpc, terminate_monitor, mon_log >>
    /\ UNCHANGED << cleanup_complete, runflag, thd_alive, lcd_open, sigterms, cleanup_trace >>
    /\ UNCHANGED << cacheVars, readerVars, now, histVars, backlightVars >>
    /\ UNCHANGED << asleep_request, configVars, textVars, known_sensors, mexc, displayVars, dump_file, lcdVars, cycles,
                    snapshots, cycle_pauses >>

\* line 302: self._the_sensor_monitor.terminate()
CleanUpTerminate ==
    /\ cpc = "terminate"
    /\ terminate_monitor' = TRUE
    /\ cpc' = "thd_terminate"
    /\ UNCHANGED << ppc, handler, cleanup_complete, runflag, thd_alive, lcd_open, sigterms, cleanup_trace >>
    /\ UNCHANGED << cacheVars, readerVars, now, histVars, backlightVars >>
    /\ UNCHANGED << asleep_request, configVars, textVars, known_sensors, mpc, mexc, mon_log, displayVars, dump_file, lcdVars, cycles, snapshots, cycle_pauses >>

\* line 304, sensor_thread.py 55 and 146-152: close() calls terminate(), which
\* clears the run flag and logs
CleanUpThreadTerminate ==
    /\ cpc = "thd_terminate"
    /\ runflag' = FALSE
    /\ log' = Append(log, LogEntry("debug", MonitorThread, "SensorThread.run() is terminating..."))
    /\ cleanup_trace' = Append(cleanup_trace, "flag_cleared")
    /\ cpc' = "join"
    /\ UNCHANGED << data_point_count, dicts, readings, list_lock, pending_sensor_changes,
                    wpc, received_data, mac, data, exc >>
    /\ UNCHANGED << ppc, handler, cleanup_complete, thd_alive, lcd_open, sigterms >>
    /\ UNCHANGED << readerVars, now, histVars, backlightVars >>
    /\ UNCHANGED << asleep_request, configVars, textVars, known_sensors, terminate_monitor, mpc, mexc, mon_log, displayVars, dump_file,
                    lcdVars, cycles, snapshots, cycle_pauses >>

\* Faulty variant: join returns at once.
JoinedAtOnce(alive) == TRUE

\* sensor_thread.py 57: self.join() returns when the thread has ended
Joined(alive) == ~alive

CleanUpJoin ==
    /\ cpc = "join"
    /\ Joined(thd_alive)
    /\ cleanup_trace' = Append(cleanup_trace, "joined")
    /\ cpc' = "backlight"
    /\ UNCHANGED << ppc, handler, cleanup_complete, runflag, thd_alive, lcd_open, sigterms >>
    /\ UNCHANGED << cacheVars, readerVars, now, histVars, backlightVars >>
    /\ UNCHANGED << asleep_request, configVars, textVars, known_sensors, terminate_monitor, mpc, mexc, mon_log, displayVars, dump_file,
                    lcdVars, cycles, snapshots, cycle_pauses >>

\* line 305: self._the_lcd.backlight(1); on a closed LCD _lcd_device is None
\* and the call raises AttributeError
CleanUpBacklight ==
    /\ cpc = "backlight"
    /\ IF lcd_open
       THEN /\ lcd_backlight' = Backlight(lcd_backlight, 1)
            /\ cleanup_trace' = Append(cleanup_trace, "backlight")
            /\ cpc' = "lcd_clear"
            /\ UNCHANGED << ppc, handler, mpc, mexc, mon_log >>
       ELSE /\ CleanUpRaise("AttributeError")
            /\ UNCHANGED << lcd_backlight, cleanup_trace >>
    /\ UNCHANGED << cleanup_complete, runflag, thd_alive, lcd_open, sigterms >>
    /\ UNCHANGED << cacheVars, readerVars, now, histVars, backlightVars >>
    /\ UNCHANGED << asleep_request, configVars, textVars, known_sensors, terminate_monitor, displayVars, dump_file, lcd_rows,
                    cycle_calls, cycles, snapshots, cycle_pauses >>

\* line 306: self._the_lcd.lcd_clear()
CleanUpLcdClear ==
    /\ cpc = "lcd_clear"
    /\ IF lcd_open
       THEN /\ lcd_rows' = LcdClear(lcd_rows)
            /\ lcd_backlight' = LcdWrite(lcd_backlight)
            /\ cleanup_trace' = Append(cleanup_trace, "lcd_clear")
            /\ cpc' = "lcd_close"
            /\ UNCHANGED << ppc, handler, mpc, mexc, mon_log >>
       ELSE /\ CleanUpRaise("AttributeError")
            /\ UNCHANGED << lcd_rows, lcd_backlight, cleanup_trace >>
    /\ UNCHANGED << cleanup_complete, runflag, thd_alive, lcd_open, sigterms >>
    /\ UNCHANGED << cacheVars, readerVars, now, histVars, backlightVars >>
    /\ UNCHANGED << asleep_request, configVars, textVars, known_sensors, terminate_monitor, displayVars, dump_file, cycle_calls, cycles, snapshots, cycle_pauses >>

\* line 307 and i2c_lcd_driver.py 233-240: self._the_lcd.lcd_close()
CleanUpLcdClose ==
    /\ cpc = "lcd_close"
    /\ IF lcd_open
       THEN /\ lcd_open' = FALSE
            /\ cleanup_trace' = Append(cleanup_trace, "lcd_close")
            /\ cpc' = "log"
            /\ UNCHANGED << ppc, handler, mpc, mexc, mon_log >>
       ELSE /\ CleanUpRaise("AttributeError")
            /\ UNCHANGED << lcd_open, cleanup_trace >>
    /\ UNCHANGED << cleanup_complete, runflag, thd_alive, sigterms >>
    /\ UNCHANGED << cacheVars, readerVars, now, histVars, backlightVars >>
    /\ UNCHANGED << asleep_request, configVars, textVars, known_sensors, terminate_monitor, displayVars, dump_file, lcdVars, cycles, snapshots, cycle_pauses >>

\* lines 309-311: the two closing log entries, and the logger is shut down
CleanUpLog ==
    /\ cpc = "log"
    /\ mon_log' = mon_log \o << MonLogEntry("info", "sensor_monitor shutdown complete", ""),
                                MonLogEntry("info", "################", "") >>
    /\ cpc' = "complete"
    /\ UNCHANGED << ppc, handler, cleanup_complete, runflag, thd_alive, lcd_open, sigterms, cleanup_trace >>
    /\ UNCHANGED << cacheVars, readerVars, now, histVars, backlightVars >>
    /\ UNCHANGED << asleep_request, configVars, textVars, known_sensors, terminate_monitor, mpc, mexc, displayVars, dump_file,
                    lcdVars, cycles, snapshots, cycle_pauses >>

\* line 312: self._cleanup_complete = True, and _clean_up returns: to the
\* handler, which goes on to sys.exit(0), or to MainProgram.run, which returns
CleanUpComplete ==
    /\ cpc = "complete"
    /\ cleanup_complete' = TRUE
    /\ cleanup_trace' = Append(cleanup_trace, "complete")
    /\ IF handler > 0
       THEN cpc' = "sys_exit" /\ UNCHANGED ppc
       ELSE cpc' = "none" /\ ppc' = "stopped"
    /\ UNCHANGED << handler, runflag, thd_alive, lcd_open, sigterms >>
    /\ UNCHANGED << cacheVars, readerVars, now, histVars, backlightVars >>
    /\ UNCHANGED << asleep_request, configVars, textVars, known_sensors, terminate_monitor, mpc, mexc, mon_log, displayVars, dump_file,
                    lcdVars, cycles, snapshots, cycle_pauses >>

\* line 297: sys.exit(0) in the handler: SystemExit is no Exception, no except
\* clause of run or MainProgram.run catches it, and the program ends
SysExit ==
    /\ cpc = "sys_exit"
    /\ handler' = 0
    /\ cpc' = "none"
    /\ ppc' = "stopped"
    /\ UNCHANGED << cleanup_complete, runflag, thd_alive, lcd_open, sigterms, cleanup_trace >>
    /\ UNCHANGED << cacheVars, readerVars, now, histVars, backlightVars >>
    /\ UNCHANGED << asleep_request, configVars, textVars, known_sensors, terminate_monitor, mpc, mexc, mon_log, displayVars, dump_file,
                    lcdVars, cycles, snapshots, cycle_pauses >>

\* lines 300-312: _clean_up, statement by statement
CleanUp ==
    \/ CleanUpTerminate
    \/ CleanUpThreadTerminate
    \/ CleanUpJoin
    \/ CleanUpBacklight
    \/ CleanUpLcdClear
    \/ CleanUpLcdClose
    \/ CleanUpLog
    \/ CleanUpComplete

\* No call of _mac_name or _now_str on its own is made.
NoTextCall == [op |-> "none"]
NoTextResult == [done |-> FALSE, str |-> << >>]
InitText ==
    /\ text_call = NoTextCall
    /\ text_result = NoTextResult

\* --------------------------------------------------- the schedule alone
\* The boundaries the schedule is built from in the schedule's own
\* specification: midnight, the minutes around it, and times within the day.
BoundarySamples == {0, 1, 6 * MinutesPerHour, 12 * MinutesPerHour + 30, 23 * MinutesPerHour, MinutesPerDay - 1}

InitSched ==
    /\ InitText
    /\ InitCache
    /\ InitReader
    /\ InitHist
    /\ now = 0
    /\ InitMonitor(DefaultConfig)
    /\ InitMain
    /\ \E off \in BoundarySamples, on \in BoundarySamples : InitBacklight(HHMM(off), HHMM(on))

NextSched ==
    \/ BacklightStateNew
    \/ BacklightStateLoop
    \/ BacklightStateDone
    \/ BacklightQuery
    \/ BacklightQueryReturn

SpecSched == InitSched /\ [][NextSched]_vars

\* ------------------------------------------------------------- the cache
\* Threads calling the callback concurrently with one reader of the cache.
InitCacheSpec ==
    /\ InitText
    /\ InitCache
    /\ InitReader
    /\ InitHist
    /\ now = 0
    /\ InitMonitor(DefaultConfig)
    /\ InitMain
    /\ InitBacklight(DefaultOffAt, DefaultOnAt)

NextCache ==
    \/ \E w \in Writers : ReceiveSensorData(w)
    \/ SensorList /\ UNCHANGED monVars

SpecCache == InitCacheSpec /\ [][NextCache]_vars

\* ------------------------------------------ the cache and its pending flag
\* The cache with the ingestion thread recording and a consumer that takes
\* snapshots and also reads pending_changes, which the program itself never
\* does.
NextLock ==
    \/ ReceiveSensorData(IngestionThread)
    \/ SensorList /\ UNCHANGED monVars
    \/ PendingChanges

SpecLock == InitCacheSpec /\ [][NextLock]_vars

\* Every thread that can take a step takes one in the end.
SpecLockFair ==
    /\ SpecLock
    /\ WF_vars(ReceiveSensorData(IngestionThread))
    /\ WF_vars(PendingChanges)


\* -------------------------------------------------------- the monitor loop
\* run is entered with the schedule built and with the readings in the cache
\* that the ingestion thread, started before it, has recorded so far; the
\* ingestion thread goes on recording while the loop runs and the clock moves.
\* How run is entered: with the default configuration shortly before the
\* backlight goes off, with the second shortly before it comes on, with the
\* diagnostic dump enabled.
StartSamples ==
    { [cfg |-> c, at |-> IF c.temperature_format = "F" THEN TimeOf(1, 22, 59, 40) ELSE TimeOf(2, 5, 59, 40)] :
         c \in ConfigSamples }

\* How many readings the cache holds then.
PreloadCounts == {0, 1, MaxSensors}

\* The readings recorded before: call i was for the mac PreloadMac(i, n), and
\* the second call was long enough ago for its sensor to count as offline.
SecondFields == [temperature |-> 25, humidity |-> 55, pressure |-> 990]
PreloadFields(i) == IF i % 2 = 1 THEN FirstFields ELSE SecondFields
\* A reading without the humidity field.
PartialFields == [temperature |-> 20, pressure |-> 1000]
\* The third call was a day and ten seconds ago.
PreloadAges(cfg) == << 10, cfg.offline_time, SecondsPerDay + 10 >>
PreloadAge(i, cfg) == IF i \in {2, 3} THEN PreloadAges(cfg)[i] ELSE PreloadAges(cfg)[1]
PreloadMac(i, n) == MacSamples[n + 1 - i]

\* run is entered as start says, with n readings in the cache, the one of
\* call "short" (if any) without its humidity, the receiver about to make
\* the given number of calls, and the given sensors known.
InitRun(start, n, calls, short, known) ==
        LET cfg == start.cfg
            loaded == [i \in 1..n |-> IF i = short THEN PartialFields ELSE PreloadFields(i)]
            t0 == start.at
            b == BacklightStateInit(cfg.backlight_off_time, cfg.backlight_on_time)
            items == [i \in 1..n |-> [key |-> PreloadMac(i, n), ref |-> i]]
        IN
        /\ off_at = cfg.backlight_off_time
        /\ on_at = cfg.backlight_on_time
        /\ backlight_state_table = b.table
        /\ on_minute = b.on_minute
        /\ off_minute = b.off_minute
        /\ bpc = "done"
        /\ for_time_dt = NoTime
        /\ backlight_query = 1
        /\ sched_in = [off |-> MinuteOf(Strptime(cfg.backlight_off_time)),
                       on |-> MinuteOf(Strptime(cfg.backlight_on_time))]
        /\ off_marks = b.marks
        /\ now = t0
        /\ MonitorFields(cfg, known)
        /\ InitMain
        /\ InitReader
        /\ data_point_count = n
        /\ dicts = [i \in {ListId, CopyId} |-> IF i = ListId THEN items ELSE EmptyDict]
        /\ readings = [i \in 1..n |-> SetTimestamp(loaded[i], t0 - PreloadAge(i, cfg))]
        /\ list_lock = Free
        /\ pending_sensor_changes = (n > 0)
        /\ log = [i \in 1..n |-> LogEntry("debug", IngestionThread, PreloadMac(i, n))]
        /\ wpc = [w \in Writers |-> "idle"]
        /\ received_data = [w \in Writers |-> << >>]
        /\ mac = [w \in Writers |-> ""]
        /\ data = [w \in Writers |-> None]
        /\ exc = [w \in Writers |-> ""]
        /\ passed = [i \in 1..n |-> [shape |-> "pair", mac |-> PreloadMac(i, n), fields |-> loaded[i]]]
        /\ last_write = [m \in AllMacs |-> IF \E i \in 1..n : PreloadMac(i, n) = m
                                          THEN CHOOSE i \in 1..n : PreloadMac(i, n) = m
                                          ELSE None]
        /\ returned = {PreloadMac(i, n) : i \in 1..n}
        /\ returned_at_call = {}
        /\ snap_view = EmptyDict
        /\ list_at_acquire = SubSeq(items, 1, n - 1)
        /\ calls_left = calls

InitMon ==
    /\ InitText
    /\ \E start \in StartSamples, n \in PreloadCounts : InitRun(start, n, MaxMonRecords, 0, << >>)

NextMon ==
    \/ ReceiveSensorData(IngestionThread)
    \/ SensorMonitorRun

SpecMon == InitMon /\ [][NextMon]_vars

\* ------------------------------------------------- the display update alone
\* The monitor loop with up to MaxRows sensors in the cache, the reading
\* recorded first without its humidity or complete, no record while it runs,
\* an LCD that can fail at any call, and terminate() called at any moment.
InitDisplay ==
    /\ InitText
    /\ \E start \in StartSamples, n \in 0..MaxRows, short \in 0..1 :
          short <= n /\ InitRun(start, n, 0, short, << >>)

NextDisplay == SensorMonitorRun \/ MonLcdFault \/ Terminate

SpecDisplay == InitDisplay /\ [][NextDisplay]_vars

\* ------------------------------------------------- the known sensors alone
\* The monitor loop entered with any list of up to MaxKnown distinct known
\* sensors and a cache of up to two readings, so that sensors of the list
\* can be absent from the snapshot; each pass is followed up to the point
\* where the known sensors have been brought up to date (line 186).
KnownMacs == {MacSamples[i] : i \in 1..(MaxKnown + 1)}
KnownSamples ==
    {known \in UNION {[1..k -> KnownMacs] : k \in 0..MaxKnown} :
        \A i, j \in 1..Len(known) : known[i] = known[j] => i = j}
KnownPreloads == 0..2

KnownStart == CHOOSE start \in StartSamples : start.cfg = DefaultConfig

InitKnown ==
    /\ InitText
    /\ \E n \in KnownPreloads, known \in KnownSamples : InitRun(KnownStart, n, 0, 0, known)

NextKnown ==
    \/ MonWhileBody
    \/ MonSensorListCall
    \/ MonSensorListCopy
    \/ MonDump
    \/ MonKnownAdd
    \/ MonKnownRemove

SpecKnown == InitKnown /\ [][NextKnown]_vars

\* ------------------------------------------- the names and the clock alone
\* _mac_name and _now_str as functions of their arguments: the ids are the
\* sample macs and the ids of other shapes, the name mapping is empty or
\* names two of them, the time is any minute of a day.
NameConfigs ==
    { EmptyConfig,
      [m \in {MacSamples[2], "AABBCCDDEEFF"} |-> [name |-> << "A", "t", "t", "i", "c" >>]] }
TextCalls ==
    {[op |-> "_mac_name", config |-> c, mac |-> m] : c \in NameConfigs, m \in AllMacs \cup DOMAIN IdTexts}
    \cup {[op |-> "_now_str", now_dt |-> [day |-> 0, hour |-> h, minute |-> m, second |-> 0]] :
              h \in 0..(HoursPerDay - 1), m \in 0..(MinutesPerHour - 1)}

InitTextSpec ==
    /\ text_call \in TextCalls
    /\ text_result = NoTextResult
    /\ InitRun(KnownStart, 0, 0, 0, << >>)

\* lines 79-88: self._mac_name(mac) is called and returns
MacNameCall ==
    /\ text_call.op = "_mac_name"
    /\ ~text_result.done
    /\ text_result' = [done |-> TRUE, str |-> MacName(text_call.config, text_call.mac)]
    /\ UNCHANGED << cacheVars, readerVars, now, histVars, backlightVars >>
    /\ UNCHANGED << mainVars, asleep_request, configVars, text_call, known_sensors, terminate_monitor, mpc, mexc,
                    mon_log, displayVars, dump_file, lcdVars, cycles, snapshots, cycle_pauses >>

\* lines 90-104: SensorMonitor._now_str(now_dt) is called and returns
NowStrCall ==
    /\ text_call.op = "_now_str"
    /\ ~text_result.done
    /\ text_result' = [done |-> TRUE, str |-> NowStr(text_call.now_dt)]
    /\ UNCHANGED << cacheVars, readerVars, now, histVars, backlightVars >>
    /\ UNCHANGED << mainVars, asleep_request, configVars, text_call, known_sensors, terminate_monitor, mpc, mexc,
                    mon_log, displayVars, dump_file, lcdVars, cycles, snapshots, cycle_pauses >>

NextText == MacNameCall \/ NowStrCall

SpecText == InitTextSpec /\ [][NextText]_vars

\* ------------------------------------------------------- the whole program
\* MainProgram from its call of run to the end of the program: the monitor
\* loop with MaxSensors sensors in the cache, the ingestion thread making one
\* more call, an LCD that can fail during a cycle, ctrl-c in run and in
\* clean-up, and SIGTERM.
InitProgram == InitText /\ InitRun(KnownStart, MaxSensors, 1, 0, << >>)

NextProgram ==
    \/ InRun /\ SensorMonitorRun
    \/ InRun /\ MonLcdFault
    \/ RunReturns
    \/ MainKeyboardInterrupt
    \/ CleanUpKeyboardInterrupt
    \/ MainCheck
    \/ Sigterm
    \/ CleanUp
    \/ SysExit
    \/ ReceiveSensorData(IngestionThread)
    \/ ThreadExit

SpecProgram == InitProgram /\ [][NextProgram]_vars

\* The steps of the main thread: run, what follows its return, clean-up and
\* the exit of the handler.  The interpreter goes on with the main thread as
\* long as it has a statement to execute.
MainThread ==
    \/ InRun /\ SensorMonitorRun
    \/ RunReturns
    \/ MainCheck
    \/ CleanUp
    \/ SysExit

\* The whole program with terminate() called from outside while run is under
\* way, a main thread that goes on, a receiver that returns from get_data
\* once the run flag is cleared and callbacks that run to their end.
NextShutdown == NextProgram \/ (InRun /\ Terminate)

SpecShutdown ==
    /\ InitProgram
    /\ [][NextShutdown]_vars
    /\ WF_vars(MainThread)
    /\ WF_vars(ThreadExit)
    /\ WF_vars(ReceiveSensorData(IngestionThread))

\* The whole program with a main thread that goes on and callbacks that run
\* to their end; of the receiver nothing is assumed, it may never return from
\* get_data.
SpecMainThread == SpecProgram /\ WF_vars(MainThread) /\ WF_vars(ReceiveSensorData(IngestionThread))

\* ------------------------------------------------------ claims on the cache
\* The fields of a stored reading, without the receipt time the callback added.
Delivered(reading) == [f \in (DOMAIN reading) \ {"timestamp"} |-> reading[f]]

\* A thread is between two records when it is not inside the critical section.
InCritical(w) ==
    wpc[w] \in {"count", "get_mac", "get_data", "timestamp", "store", "pending",
                "log_debug", "log_error1", "log_error2", "release"}
Logging(w) == wpc[w] \in {"log_debug", "log_error1", "log_error2"}
Malformed(rd) == Len(rd) < 2 \/ rd[2] = None \/ ~Hashable(rd[1])

\* C1: snapshot independence.  The copy sensor_list returned shows, for as long
\* as the caller holds it, the keys and the readings it showed when it was
\* made, whatever records happen afterwards.
C1_SnapshotIndependent ==
    current_data # None => View(dicts, readings, current_data) = snap_view

\* C1 witness: the caller holds a copy with an entry that a later record has
\* since replaced in the cache.
C1_Witness ==
    /\ current_data # None
    /\ \E m \in DOMAIN snap_view :
          /\ m \in DictKeys(dicts[ListId])
          /\ DictGet(dicts[ListId], m) # DictGet(dicts[current_data], m)
          /\ readings[DictGet(dicts[ListId], m)] # snap_view[m]

\* The cache holds, for each mac, exactly what the latest store for it passed.
LastWriteState ==
    /\ DictKeys(dicts[ListId]) \subseteq AllMacs
    /\ \A m \in AllMacs :
          IF last_write[m] = None
          THEN m \notin DictKeys(dicts[ListId])
          ELSE /\ m \in DictKeys(dicts[ListId])
               /\ DictGet(dicts[ListId], m) = last_write[m]
               /\ passed[last_write[m]].mac = m
               /\ Delivered(readings[last_write[m]]) = passed[last_write[m]].fields

\* C2: last write wins.  After every step the cache holds one reading per mac,
\* the one passed to the latest record of that mac; the store of a record
\* leaves every other entry as it was; a copy made by sensor_list shows that
\* reading for every mac.
C2_LastWriteWins ==
    [][ /\ LastWriteState'
        /\ \A w \in Writers :
              (wpc[w] = "store" /\ wpc'[w] = "pending") =>
                 \A k \in DictKeys(dicts[ListId]) \ {received_data[w][1]} :
                    /\ k \in DictKeys(dicts'[ListId])
                    /\ DictGet(dicts'[ListId], k) = DictGet(dicts[ListId], k)
                    /\ readings'[DictGet(dicts'[ListId], k)] = readings[DictGet(dicts[ListId], k)]
        /\ (rpc = "copy" /\ rpc' = "ret") =>
              \A m \in AllMacs :
                 last_write[m] # None =>
                    /\ m \in DictKeys(dicts'[current_data'])
                    /\ Delivered(View(dicts', readings', current_data')[m]) = passed[last_write[m]].fields
      ]_vars

\* C2 witness: a mac was recorded twice with different readings, both records
\* have returned, and the cache holds the second reading.
C2_Witness ==
    \E m \in Macs, r1 \in 1..Len(passed) :
       /\ last_write[m] # None
       /\ r1 # last_write[m]
       /\ passed[r1].mac = m
       /\ passed[r1].shape = "pair"
       /\ passed[r1].fields # passed[last_write[m]].fields
       /\ "timestamp" \in DOMAIN readings[r1]
       /\ Delivered(readings[DictGet(dicts[ListId], m)]) = passed[last_write[m]].fields
       /\ \A w \in Writers : wpc[w] = "idle"

\* The macs of the well-formed records begun so far.
CalledMacs == {passed[r].mac : r \in {x \in 1..Len(passed) : passed[x].shape = "pair"}}
CallsFor(m) == {r \in 1..Len(passed) : passed[r].shape = "pair" /\ passed[r].mac = m}

\* C3: no lost updates.  A copy made by a sensor_list call has an entry for
\* every mac whose record had returned when the call began, every entry is a
\* reading that was recorded for its mac, and there is no other entry: when N
\* records of N distinct macs have all returned, the copy has exactly those N
\* entries, each the reading written for its mac.
C3_NoLostUpdates ==
    rpc = "ret" =>
       LET snap == dicts[current_data]
       IN /\ returned_at_call \subseteq DictKeys(snap)
          /\ DictKeys(snap) \subseteq CalledMacs
          /\ \A m \in DictKeys(snap) : DictGet(snap, m) \in CallsFor(m)
          /\ (CalledMacs = returned_at_call /\ \A m \in CalledMacs : Cardinality(CallsFor(m)) = 1) =>
                /\ Cardinality(DictKeys(snap)) = Cardinality(returned_at_call)
                /\ \A m \in DictKeys(snap) :
                      /\ CallsFor(m) = {DictGet(snap, m)}
                      /\ Delivered(snap_view[m]) = passed[DictGet(snap, m)].fields

\* C3 witness: two records of two distinct macs, one per calling thread, have
\* returned, and a copy made afterwards holds both.
C3_Witness ==
    /\ rpc = "ret"
    /\ returned_at_call = Macs
    /\ \A m \in Macs : Cardinality(CallsFor(m)) = 1
    /\ Cardinality(DictKeys(dicts[current_data])) = Cardinality(Macs)
    /\ \E i, j \in 1..Len(log) : log[i].level = "debug" /\ log[j].level = "debug" /\ log[i].who # log[j].who

\* C4: snapshot atomicity.  The copy sensor_list returns is the content of the
\* cache at the instant of the copy, which lies between the call and the
\* return, whatever records run around it.
C4_SnapshotAtomic ==
    [][ (rpc = "copy" /\ rpc' = "ret") =>
           View(dicts', readings', current_data') = View(dicts, readings, ListId) ]_vars

\* C4 witness: a copy holding an earlier write was made while a later record
\* was inside its critical section, its store still to come.
C4_Witness ==
    /\ rpc = "ret"
    /\ Cardinality(DOMAIN snap_view) >= 1
    /\ snap_view = View(dicts, readings, ListId)
    /\ \E w \in Writers :
          /\ wpc[w] \in {"count", "get_mac", "get_data", "timestamp", "store"}
          /\ ~Malformed(received_data[w])

\* C5 as claimed: the store of a record and the copy of sensor_list both run
\* with the lock held by the thread that does them.
C5_LockCoversAllAccess ==
    [][ /\ dicts'[ListId] # dicts[ListId] =>
              \E w \in Writers : list_lock = w /\ wpc[w] = "store"
        /\ (rpc = "copy" /\ rpc' = "ret") => list_lock = MonitorThread
      ]_vars

\* C5 as the code has it: the store of a record runs with the lock held by the
\* storing thread; the copy of sensor_list is made without the lock, which the
\* reading thread never holds.
C5_LockCoversStore ==
    [][ /\ dicts'[ListId] # dicts[ListId] =>
              \E w \in Writers : list_lock = w /\ wpc[w] = "store" /\ list_lock' = w
        /\ (rpc = "copy" /\ rpc' = "ret") => list_lock # MonitorThread /\ list_lock' = list_lock
        /\ list_lock' # MonitorThread
      ]_vars

\* C5 witness: a thread has just stored under the lock and the reader has
\* made a copy meanwhile.
C5_Witness ==
    /\ \E w \in Writers : list_lock = w /\ wpc[w] = "pending"
    /\ rpc = "ret"
    /\ current_data # None

\* C6 as claimed: the holder of the lock never executes a logging call.
C6_NoLoggingUnderLock ==
    \A w \in Writers : list_lock = w => ~Logging(w)

\* C6 as the code has it: the lock is held only by a thread inside the
\* critical section of _receive_sensor_data, where it updates the cache and
\* makes the callback's own logging calls (debug on success, error twice on
\* failure); the reading thread, which renders and sleeps, never holds it.
C6_LockOnlyInCallback ==
    /\ list_lock # MonitorThread
    /\ \A w \in Writers : (list_lock = w) <=> InCritical(w)
    /\ list_lock \in {Free} \cup Writers

\* C6 witness: the lock is held during the debug log of a successful record.
C6_Witness ==
    \E w \in Writers : list_lock = w /\ wpc[w] = "log_debug" /\ exc[w] = ""

\* C7: ingestion failure.  A record of a malformed argument never changes the
\* cache; once the exception is raised it is handled inside the callback: two
\* error entries are logged, the lock is released in the finally clause, and
\* the call returns to the receiver, which can call again.
C7_FailureHandled ==
    \A w \in Writers :
       /\ (InCritical(w) /\ Malformed(received_data[w])) => dicts[ListId] = list_at_acquire
       /\ exc[w] # "" =>
             /\ wpc[w] \in {"log_error1", "log_error2", "release"}
             /\ list_lock = w
             /\ dicts[ListId] = list_at_acquire
             /\ wpc[w] = "release" =>
                   /\ Len(log) >= 2
                   /\ log[Len(log) - 1] = LogEntry("error", w, "Unhandled exception caught")
                   /\ log[Len(log)] = LogEntry("error", w, exc[w])
       /\ wpc[w] = "idle" => (list_lock # w /\ exc[w] = "")
       /\ wpc[w] = "pending" => ~Malformed(received_data[w])

\* C7 witness: a record failed and was logged, and a later record succeeded.
C7_Witness ==
    /\ \E i, j \in 1..Len(log) : i < j /\ log[i].level = "error" /\ log[j].level = "debug"
    /\ list_lock = Free
    /\ \A w \in Writers : wpc[w] = "idle"
    /\ DictKeys(dicts[ListId]) # {}

\* The consumer is inside the critical section of pending_changes.
PcCritical == pending_call.pc \in {"read", "clear", "release"}
\* A thread is waiting in acquire().
LockAwaited == pending_call.pc = "acquire" \/ \E w \in Writers : wpc[w] = "acquire"

\* What holds of the lock in every state: it is held exactly by a thread
\* inside a critical section, so it is free when no record call and no
\* pending_changes call is under way; and when a thread waits for it, the
\* holder can take its next step.
LockHeldInside ==
    /\ list_lock \in {Free, MonitorThread} \cup Writers
    /\ \A w \in Writers : (list_lock = w) <=> InCritical(w)
    /\ (list_lock = MonitorThread) <=> PcCritical
    /\ ((\A w \in Writers : wpc[w] = "idle") /\ pending_call.pc = "idle") => list_lock = Free
    /\ LockAwaited =>
          /\ \A w \in Writers : list_lock = w => ENABLED ReceiveSensorData(w)
          /\ list_lock = MonitorThread => ENABLED PendingChanges

\* C30: lock release and deadlock freedom.  Every record call releases the
\* lock with the step that returns, after a success and after an error, and
\* so does every pending_changes call; the lock is free whenever no cache
\* operation is under way; a thread that waits for the lock never waits for a
\* holder that cannot go on; and with threads that go on the lock is free
\* again and again.
C30_LockReleased ==
    /\ []LockHeldInside
    /\ [][/\ \A w \in Writers :
                (wpc[w] # "idle" /\ wpc'[w] = "idle") => (list_lock = w /\ list_lock' = Free)
          /\ (pending_call.pc # "idle" /\ pending_call'.pc = "idle")
                => (list_lock = MonitorThread /\ list_lock' = Free)]_vars
    /\ []<>(list_lock = Free)

\* C32: the cache never shrinks.  The cache is empty until a record call has
\* begun; no step takes a key out of it; the mac of every record call that has
\* returned after storing is a key of the cache from then on and of every copy
\* sensor_list makes afterwards, also when no further record comes for it.
C32_CacheNeverShrinks ==
    /\ [](/\ data_point_count = 0 => DictKeys(dicts[ListId]) = {}
          /\ returned \subseteq DictKeys(dicts[ListId]))
    /\ [][/\ DictKeys(dicts[ListId]) \subseteq DictKeys(dicts'[ListId])
          /\ returned \subseteq returned'
          /\ (rpc = "copy" /\ rpc' = "ret") => returned \subseteq DictKeys(dicts'[current_data'])]_vars

\* All record calls of the run have been made, for two macs, the first of
\* them has had no record since, and a copy made after the last one has
\* returned holds both macs.
C32_Witness ==
    /\ rpc = "ret"
    /\ calls_left = 0
    /\ \A w \in Writers : wpc[w] = "idle"
    /\ Cardinality(returned) >= 2
    /\ returned_at_call = returned
    /\ DictKeys(dicts[current_data]) = returned

\* The macs run has logged with the given text, one item per log entry.
LoggedMacs(text) ==
    LET at == SelectSeq([i \in 1..Len(mon_log) |-> i], LAMBDA i : mon_log[i].text = text)
    IN [k \in 1..Len(at) |-> mon_log[at[k]].mac]
NoDuplicate(s) == \A i, j \in 1..Len(s) : s[i] = s[j] => i = j

\* C33: known sensors track the cache.  With the cache written by record
\* calls only, a cycle that has brought the known sensors up to date (line
\* 186) leaves a list with no duplicate that holds exactly the macs of the
\* cycle's snapshot; throughout the run the macs logged as monitored are the
\* known sensors, each logged once; and no sensor is logged as gone offline.
C33_KnownTracksCache ==
    /\ mpc = "query" =>
          /\ NoDuplicate(known_sensors)
          /\ Range(known_sensors) = DictKeys(dicts[current_data])
    /\ mpc # "known_remove" => LoggedMacs("Monitoring sensor") = known_sensors
    /\ NoDuplicate(LoggedMacs("Monitoring sensor"))
    /\ LoggedMacs("has gone offline") = << >>
    /\ Range(known_sensors) \subseteq DictKeys(dicts[ListId])

\* In a second cycle the known sensors have been brought up to date with a
\* snapshot of two sensors or more, of which one has its only reading from
\* this cycle: it has become known now.
C33_Witness ==
    /\ mpc = "query"
    /\ cycles >= 2
    /\ Len(known_sensors) >= 2
    /\ \E m \in Range(known_sensors) :
          /\ Cardinality(CallsFor(m)) = 1
          /\ readings[DictGet(dicts[current_data], m)].timestamp = now

\* C31: pending-changes test-and-clear.  A read of pending_changes returns
\* True exactly when a record call has set the flag since the read before it
\* (or since start-up); flag and answer are read and reset under the lock with
\* no record call in between; outside a read the flag is up exactly when a
\* record has not been reported yet, so the next read reports it.
C31_TestAndClear ==
    /\ [](/\ PcCritical => (list_lock = MonitorThread /\ \A w \in Writers : ~InCritical(w))
          /\ pending_call.pc # "clear" => (pending_sensor_changes <=> Recorded > pending_call.seen)
          /\ pending_call.pc = "clear" => Recorded = pending_call.seen
          /\ pending_call.pc \in {"clear", "release"} =>
                (pending_call.c <=> pending_call.seen > pending_call.before))
    /\ [][/\ (pending_call.pc = "read" /\ pending_call'.pc = "clear") =>
                 (pending_call'.c <=> Recorded > pending_call.seen)
          /\ (pending_call.pc = "clear" /\ pending_call'.pc = "release") =>
                 (~pending_sensor_changes' /\ Recorded' = Recorded)
          /\ (pending_call.pc = "release" /\ pending_call'.pc = "idle") =>
                 (~pending_sensor_changes' /\ pending_call'.c = pending_call.c)]_vars

\* A read returns True for a record made after an earlier read, which had
\* reported a record too.
C31_Witness ==
    /\ pending_call.pc = "release"
    /\ pending_call.c
    /\ pending_call.before >= 1
    /\ pending_call.seen > pending_call.before

\* The consumer holds the lock in pending_changes while a record call waits
\* for it, after a record call that failed has returned.
C30_Witness ==
    /\ list_lock = MonitorThread
    /\ PcCritical
    /\ \E w \in Writers : wpc[w] = "acquire"
    /\ \E i \in 1..Len(log) : log[i].level = "error"

\* ---------------------------------------------------- claims on the schedule
\* Minute m lies in the half-open interval [off, on), which wraps past
\* midnight when off > on and is empty when off = on.
InOffInterval(m, off, on) ==
    IF off <= on THEN off <= m /\ m < on ELSE m >= off \/ m < on

\* C8: schedule interval.  For boundaries that differ, the table the
\* constructor built is off for exactly the minutes of [off_at, on_at) and on
\* for every other minute of the day, and a query returns the entry of the
\* hour and minute of the time asked for, whatever its day and second.
C8_ScheduleInterval ==
    sched_in.off # sched_in.on =>
       /\ bpc = "done" =>
             /\ DOMAIN backlight_state_table = 0..(MinutesPerDay - 1)
             /\ \A m \in 0..(MinutesPerDay - 1) :
                   backlight_state_table[m] =
                      IF InOffInterval(m, sched_in.off, sched_in.on) THEN 0 ELSE 1
       /\ bpc = "queried" =>
             backlight_query =
                IF InOffInterval(for_time_dt.hour * MinutesPerHour + for_time_dt.minute,
                                 sched_in.off, sched_in.on)
                THEN 0 ELSE 1

\* C8 witness: a schedule that wraps past midnight was built and queried at a
\* minute after midnight that is off.
C8_Witness ==
    /\ bpc = "queried"
    /\ sched_in.off > sched_in.on
    /\ sched_in.on > 0
    /\ for_time_dt.hour = 0
    /\ for_time_dt.minute = 0
    /\ for_time_dt.second = 59
    /\ backlight_query = 0

\* C9: degenerate schedule.  When the two boundaries are equal the loop body
\* never runs, the constructor returns, and every minute of the day is on.
C9_DegenerateSchedule ==
    sched_in.off = sched_in.on =>
       /\ off_marks = 0
       /\ bpc = "loop" => ~LoopCond(off_minute, on_minute)
       /\ bpc \in {"loop", "done"} =>
             \A m \in 0..(MinutesPerDay - 1) : backlight_state_table[m] = 1
       /\ backlight_query = 1

\* C9 witness: a schedule with equal boundaries was built and queried.
C9_Witness ==
    /\ bpc = "queried"
    /\ sched_in.off = sched_in.on
    /\ sched_in.off > 0
    /\ for_time_dt.hour = sched_in.off \div MinutesPerHour
    /\ for_time_dt.minute = sched_in.off % MinutesPerHour
    /\ for_time_dt.day = 1

\* ----------------------------------------------- claims on the monitor loop
\* The calls of one kind among the LCD calls of a cycle, by position.
BacklightCalls(calls) == {i \in 1..Len(calls) : calls[i].op = "backlight"}
ClearCalls(calls) == {i \in 1..Len(calls) : calls[i].op = "lcd_clear"}
ClockWrites(calls) == {i \in 1..Len(calls) : calls[i].op = "lcd_display_string" /\ calls[i].line = Rows}
RowWrites(calls) == {i \in 1..Len(calls) : calls[i].op = "lcd_display_string" /\ calls[i].line # Rows}
\* The positions of run in the display update, and in its turn of the page.
UpdatePositions ==
    {"display_lines", "lcd_clear", "time_display", "line", "page_sleep", "page_clear", "page_time_display"}
PagePositions == {"page_sleep", "page_clear", "page_time_display"}

\* C10: backlight gating.  A cycle issues at most one backlight command, and
\* a cycle that has come to its closing sleep has issued exactly one; the
\* command is the first LCD call of the cycle, before any clear or write.  It
\* is made for the time the clock showed when the schedule was asked, and it
\* is "off" exactly when the schedule table holds OFF for that time.  After
\* an "off" command the cycle makes no other LCD call (no clear, no row
\* write, no clock write) and is never in the display update or turning a
\* page; after an "on" command the display update runs: by the closing sleep
\* the panel was cleared, the clock line written, and one row written for
\* every sensor of the snapshot.
C10_BacklightGating ==
    LET scheduled_off == QueryBacklightStateDt(backlight_state_table, for_time_dt) = 0
    IN
    /\ Cardinality(BacklightCalls(cycle_calls)) <= 1
    /\ mpc = "backlight" => for_time_dt = DateTime(now) /\ cycle_calls = << >>
    /\ mpc \in UpdatePositions =>
          /\ cycle_calls # << >>
          /\ cycle_calls[1].state = 1
    /\ cycle_calls # << >> =>
          /\ cycle_calls[1].op = "backlight"
          /\ cycle_calls[1].state = (IF scheduled_off THEN 0 ELSE 1)
          /\ lcd_backlight = cycle_calls[1].state
          /\ Len(cycle_calls) = 1 /\ mpc \in {"display_lines", "sleep"} => for_time_dt = DateTime(now)
          /\ cycle_calls[1].state = 0 =>
                /\ Len(cycle_calls) = 1
                /\ ClearCalls(cycle_calls) = {}
                /\ RowWrites(cycle_calls) = {}
                /\ ClockWrites(cycle_calls) = {}
                /\ mpc \notin UpdatePositions \cup PagePositions
    /\ mpc = "sleep" =>
          /\ Cardinality(BacklightCalls(cycle_calls)) = 1
          /\ cycle_calls[1].state = 1 =>
                /\ Len(cycle_calls) >= 3
                /\ cycle_calls[2].op = "lcd_clear"
                /\ 3 \in ClockWrites(cycle_calls)
                /\ Cardinality(RowWrites(cycle_calls)) = Len(dicts[current_data])

\* An "off" cycle has come to its closing sleep with the backlight command as
\* its only LCD call, after an "on" cycle that wrote sensor rows.
C10_Witness ==
    /\ mpc = "sleep"
    /\ cycles = 2
    /\ cycle_calls = << LcdCall("backlight", 0, 0, << >>) >>
    /\ QueryBacklightStateDt(backlight_state_table, for_time_dt) = 0
    /\ lcd_backlight = 0
    /\ lcd_rows[1] # << >>

\* The panel shows nothing: every row is empty or holds spaces only.
PanelBlank(rows) == \A r \in 1..Rows : \A i \in 1..Len(rows[r]) : rows[r][i] = " "

\* C11: blank screen when OFF.  When a cycle that the schedule mapped to OFF
\* has come to its closing sleep, the panel shows no sensor row and no clock
\* line, also when the cycle before it was ON and drew rows.
C11_BlankWhenOff ==
    (mpc = "sleep" /\ cycle_calls # << >> /\ cycle_calls[1].state = 0) => PanelBlank(lcd_rows)

\* The kind and the row of each LCD call.
CallShapes(calls) == [i \in 1..Len(calls) |-> [op |-> calls[i].op, line |-> calls[i].line]]

\* The calls that draw n rows in pages of three: for every page a clear, the
\* clock line on the bottom row, and its rows on the rows 1, 2, 3; every page
\* but the last is full, so page p starts at call 5 * (p - 1) + 1.
PagedShapes(n) ==
    LET pages == (n + 2) \div 3
    IN [k \in 1..(2 * pages + n) |->
           LET at == (k - 1) % 5
           IN IF at = 0 THEN [op |-> "lcd_clear", line |-> 0]
              ELSE IF at = 1 THEN [op |-> "lcd_display_string", line |-> Rows]
              ELSE [op |-> "lcd_display_string", line |-> at - 1]]

IsPrefix(s, t) == Len(s) <= Len(t) /\ s = SubSeq(t, 1, Len(s))

\* The strings written to the rows 1..3, in the order of the calls.
RowStrings(calls) ==
    LET rows == SelectSeq(calls, LAMBDA c : c.op = "lcd_display_string" /\ c.line # Rows)
    IN [i \in 1..Len(rows) |-> rows[i].string]

\* C12: pagination.  In an ON cycle with n >= 1 sorted rows the LCD calls
\* after the backlight command are, page by page, a clear, the clock line and
\* the rows of the page: ceil(n/3) pages, each but the last of exactly 3
\* rows and the last of the rows that remain, with no page after it; the
\* rows are the sorted lines in their order.  While the update is under way
\* the calls made are a beginning of that sequence, and at the closing sleep
\* they are all of it.
C12_Pagination ==
    LET n == Len(display_lines)
        drawn == Tail(cycle_calls)
    IN (/\ cycle_calls # << >>
        /\ cycle_calls[1].state = 1
        /\ mpc \in (UpdatePositions \ {"display_lines"}) \cup {"sleep"}
        /\ n >= 1)
       => /\ IsPrefix(CallShapes(drawn), PagedShapes(n))
          /\ IsPrefix(RowStrings(drawn), display_lines)
          /\ mpc = "sleep" =>
                /\ CallShapes(drawn) = PagedShapes(n)
                /\ RowStrings(drawn) = display_lines
                /\ Cardinality(ClearCalls(cycle_calls)) = (n + 2) \div 3

\* An ON cycle has drawn six rows and come to its closing sleep: two pages.
C12_Witness ==
    /\ mpc = "sleep"
    /\ cycle_calls # << >>
    /\ cycle_calls[1].state = 1
    /\ Len(display_lines) = 6
    /\ Len(RowStrings(cycle_calls)) = 6
    /\ Cardinality(ClearCalls(cycle_calls)) = 2

\* The row of a sensor with the given values, in tenths.
RowText(m, tmp, hum) ==
    FormatS(MacName(sensor_config, m), 7) \o << " " >> \o FormatF(tmp, 5) \o << " " >> \o FormatF(hum, 5)

\* The row of a sensor shown with the given reading, in the configured unit.
ValueLine(m, fields) ==
    RowText(m, IF temperature_format = "F" THEN ToFahrenheit(10 * fields.temperature)
               ELSE 10 * fields.temperature,
            10 * fields.humidity)

\* The row of a sensor shown as offline: 0.0 and 0.0.
OfflineLine(m) == RowText(m, 0, 0)

\* The offline warnings for the sensor among the entries a step has logged.
NewWarnings(m) ==
    {i \in (Len(mon_log) + 1)..Len(mon_log') :
        mon_log'[i] = MonLogEntry("warning", "appears to be offline", m)}

\* The step of an ON cycle that generates and sorts the rows.
LinesGenerated == mpc = "display_lines" /\ mpc' = "lcd_clear"

\* C13: staleness boundary.  When a cycle generates its rows, a reading of
\* the snapshot with both fields whose age is below offline_time gets the row
\* with its temperature and humidity and no offline warning; a reading whose
\* age equals offline_time gets the row with 0.0 and 0.0 and exactly one
\* warning that names its sensor.
C13_StalenessBoundary ==
    [][LinesGenerated =>
         LET view == View(dicts, readings, current_data)
         IN \A m \in DOMAIN view :
              LET age == now - view[m]["timestamp"]
              IN /\ (/\ age >= 0
                     /\ age < offline_time
                     /\ {"temperature", "humidity"} \subseteq DOMAIN view[m])
                    => /\ \E i \in 1..Len(display_lines') : display_lines'[i] = ValueLine(m, view[m])
                       /\ NewWarnings(m) = {}
                 /\ age = offline_time
                    => /\ \E i \in 1..Len(display_lines') : display_lines'[i] = OfflineLine(m)
                       /\ Cardinality(NewWarnings(m)) = 1
                       /\ ValueLine(m, view[m]) # OfflineLine(m)
                             => \A i \in 1..Len(display_lines') : display_lines'[i] # ValueLine(m, view[m])]_vars

\* The rows have been generated for a snapshot that holds a reading younger
\* than offline_time and a reading exactly offline_time old.
C13_Witness ==
    /\ mpc = "lcd_clear"
    /\ LET view == View(dicts, readings, current_data)
       IN /\ \E m \in DOMAIN view : now - view[m]["timestamp"] = offline_time
          /\ \E m \in DOMAIN view : /\ now - view[m]["timestamp"] \in 0..(offline_time - 1)
                                    /\ \E i \in 1..Len(display_lines) : display_lines[i] = ValueLine(m, view[m])

\* C14: staleness for every age.  When a cycle generates its rows, every
\* reading of the snapshot whose age is offline_time or more, a day or more
\* included, gets the offline row with 0.0 and 0.0 and an offline warning.
C14_StaleAtEveryAge ==
    [][LinesGenerated =>
         LET view == View(dicts, readings, current_data)
         IN \A m \in DOMAIN view :
              now - view[m]["timestamp"] >= offline_time
                 => /\ \E i \in 1..Len(display_lines') : display_lines'[i] = OfflineLine(m)
                    /\ NewWarnings(m) # {}]_vars

\* The readings of the snapshot that count as online and lack a field.
ShortReadings(view) ==
    {m \in DOMAIN view : /\ IsOnline(now - view[m]["timestamp"], offline_time)
                         /\ ~({"temperature", "humidity"} \subseteq DOMAIN view[m])}

\* The reading with every field it lacks taken as zero.
ZeroFilled(fields) ==
    [f \in {"temperature", "humidity"} |-> IF f \in DOMAIN fields THEN fields[f] ELSE 0]

\* C15: missing fields do not abort.  When the rows are generated from a
\* snapshot in which an online reading lacks its temperature or humidity, no
\* exception is raised, the loop is not told to terminate, the fields that
\* lack are shown as zero and the rows of the other online sensors are there.
C15_MissingFieldsTolerated ==
    [][LET view == View(dicts, readings, current_data)
       IN (/\ mpc = "display_lines"
           /\ mpc' \in {"lcd_clear", "except"}
           /\ ShortReadings(view) # {})
          => /\ mpc' = "lcd_clear"
             /\ mexc' = ""
             /\ ~terminate_monitor'
             /\ \A m \in DOMAIN view :
                   IsOnline(now - view[m]["timestamp"], offline_time)
                      => \E i \in 1..Len(display_lines') :
                            display_lines'[i] = ValueLine(m, ZeroFilled(view[m]))]_vars

\* Every order in which the keys of the set can have been inserted.
RECURSIVE InsertionOrders(_)
InsertionOrders(keys) ==
    IF keys = {} THEN {<< >>}
    ELSE UNION {{<< k >> \o rest : rest \in InsertionOrders(keys \ {k})} : k \in keys}

\* The rows are in ascending order, code point by code point.
Ascending(lines) == \A i \in 1..(Len(lines) - 1) : ~StrLess(lines[i + 1], lines[i])

\* The rows the update generates from the snapshot with its keys in the given
\* order, sorted.
SortedRows(keys, view) ==
    LET r == DisplayLines(keys, view, 1, now, offline_time, temperature_format, sensor_config,
                          [exc |-> "", lines |-> << >>, offline |-> << >>])
    IN IF r.exc = "" THEN SortLines(r.lines, Len(r.lines)) ELSE << >>

\* C16: deterministic row order.  The rows a cycle generates are one row per
\* key of the snapshot in ascending order of the formatted strings, the same
\* rows in the same order for every insertion order of the same entries, and
\* the rows written to the LCD by the end of the cycle are those rows in that
\* order.
C16_RowOrder ==
    [][/\ LinesGenerated =>
            LET view == View(dicts, readings, current_data)
                keys == DOMAIN view
            IN /\ Ascending(display_lines')
               /\ Len(display_lines') = Cardinality(keys)
               /\ \A m \in keys :
                     \E i \in 1..Len(display_lines') :
                        display_lines'[i] = DisplayLine(m, view[m], now, offline_time,
                                                        temperature_format, sensor_config).line
               /\ Cardinality(keys) <= MaxPermuted
                     => \A order \in InsertionOrders(keys) : SortedRows(order, view) = display_lines'
       /\ (mpc # "sleep" /\ mpc' = "sleep" /\ cycle_calls'[1].state = 1)
             => /\ RowStrings(cycle_calls') = display_lines'
                /\ Ascending(RowStrings(cycle_calls'))]_vars

\* An ON cycle has written three or more rows whose ascending order is not
\* the order of the keys in the snapshot.
C16_Witness ==
    /\ mpc = "sleep"
    /\ cycle_calls # << >>
    /\ cycle_calls[1].state = 1
    /\ Len(RowStrings(cycle_calls)) >= 3
    /\ LET keys == DictOrder(dicts[current_data])
       IN /\ Len(keys) = Len(display_lines)
          /\ keys \in InsertionOrders(DOMAIN View(dicts, readings, current_data))
          /\ SortedRows(keys, View(dicts, readings, current_data)) = display_lines
          /\ \E i \in 1..Len(keys) :
                display_lines[i] # DisplayLine(keys[i], View(dicts, readings, current_data)[keys[i]], now,
                                               offline_time, temperature_format, sensor_config).line

\* The entries of the given kind for the sensor that a step has logged.
NewInfos(text, m) ==
    {i \in (Len(mon_log) + 1)..Len(mon_log') : mon_log'[i] = MonLogEntry("info", text, m)}

ErrorLogged == \E i \in 1..Len(mon_log) : mon_log[i].level = "error"

\* C18: no cycle retry.  The handler of an exception raised in a cycle logs
\* it at error level and sets the termination flag; from then on the loop
\* only leaves: it is at its condition or past it, starts no cycle, takes no
\* snapshot and makes no LCD call.
C18_NoCycleRetry ==
    [][/\ (mpc = "except" /\ mpc' # "except")
          => /\ mexc # ""
             /\ mpc' = "while"
             /\ terminate_monitor'
             /\ \E i \in (Len(mon_log) + 1)..Len(mon_log') : mon_log'[i] = MonLogEntry("error", mexc, "")
             /\ \A i \in (Len(mon_log) + 1)..Len(mon_log') : mon_log'[i].level = "error"
       /\ ErrorLogged
          => /\ terminate_monitor /\ terminate_monitor'
             /\ mpc \in {"while", "exit"} /\ mpc' \in {"while", "exit"}
             /\ UNCHANGED << cycles, cycle_calls, lcd_rows, lcd_backlight, current_data, dicts,
                             display_lines >>]_vars

\* An LCD call of the first cycle has failed, the error is logged, and run has
\* returned with a cycle still to go.
C18_Witness ==
    /\ mpc = "exit"
    /\ cycles < MaxCycles
    /\ terminate_monitor
    /\ \E i \in 1..Len(mon_log) : mon_log[i] = MonLogEntry("error", "OSError", "")

\* A cycle starts: the body of the loop is entered.
CycleStarts == cycles' = cycles + 1

\* C20: termination flag at cycle top.  A cycle starts only from the loop
\* condition and only with the flag clear, and its snapshot is the first
\* thing it takes; with the flag set no cycle starts.  run returns only from
\* the loop condition with the flag set, and the flag is set only by a call
\* of terminate(), by the handler of an error of a cycle, or by the handler
\* of ctrl-c.
C20_FlagAtCycleTop ==
    [][/\ cycles' # cycles => CycleStarts
       /\ CycleStarts => mpc = "while" /\ ~terminate_monitor /\ mpc' = "sensor_list"
       /\ (mpc' = "sensor_list" /\ mpc # "sensor_list") => CycleStarts
       /\ terminate_monitor => terminate_monitor' /\ ~CycleStarts
       /\ (mpc' = "exit" /\ mpc # "exit") => mpc = "while" /\ terminate_monitor
       /\ (terminate_monitor' /\ ~terminate_monitor)
             => \/ mpc = "except" /\ mpc' = "while" /\ ErrorLogged'
                \/ /\ mpc \in TryPositions /\ mpc' = "while"
                   /\ mon_log' = Append(mon_log, MonLogEntry("info", "ctrl-c caught in SensorMonitor.run()", ""))
                \/ mpc' = mpc /\ mon_log' = mon_log]_vars

\* terminate() was called in the middle of the first cycle, the cycle went on
\* to its end, and run has returned without a second cycle, an error or a
\* ctrl-c.
C20_Witness ==
    /\ mpc = "exit"
    /\ terminate_monitor
    /\ cycles = 1
    /\ cycles < MaxCycles
    /\ Len(RowStrings(cycle_calls)) >= 1
    /\ \A i \in 1..Len(mon_log) : mon_log[i].level # "error" /\ mon_log[i].text # "ctrl-c caught in SensorMonitor.run()"

DumpPassed == mpc = "dump" /\ mpc' \in {"known_add", "except"}

\* C26: diagnostic dump.  With debug_sensors set every cycle writes the whole
\* snapshot to the side file, keyed by sensor id, and goes on to the diff of
\* the known sensors, also when the snapshot holds readings with their
\* timestamps; with debug_sensors not set no file is written.
C26_DiagnosticDump ==
    [][DumpPassed =>
          IF debug_sensors
          THEN /\ dump_file'.exists
               /\ dump_file'.closed
               /\ dump_file'.keys = DictKeys(dicts[current_data])
               /\ mpc' = "known_add"
          ELSE /\ ~dump_file'.exists
               /\ mpc' = "known_add"]_vars

\* The positions of run at which current_data is bound to the snapshot of the cycle.
SnapshotPositions == TryPositions \ {"sensor_list", "sensor_list_copy"}

\* C23: one snapshot per cycle.  A cycle takes one snapshot, the content of
\* the cache at that moment, and none after it; as long as the cycle lasts
\* the snapshot keeps that content whatever is recorded meanwhile; the dump
\* writes keys of the snapshot, the known sensors are completed from its
\* keys, the rows are generated from it once and stay as generated while the
\* pages are drawn, and the rows written are those rows.  What is recorded
\* during a cycle is in the snapshot of the next.
C23_OneSnapshot ==
    [][/\ snapshots' <= cycles'
       /\ snapshots' >= cycles' - 1
       /\ mpc' \in SnapshotPositions
             => /\ snapshots' = cycles'
                /\ View(dicts', readings', current_data') = snap_view'
       /\ snapshots' # snapshots
             => /\ mpc = "sensor_list_copy"
                /\ snap_view' = View(dicts, readings, ListId)
       /\ (DumpPassed /\ debug_sensors) => dump_file'.keys \subseteq DOMAIN snap_view
       /\ (mpc = "known_add" /\ mpc' = "known_remove") => DOMAIN snap_view \subseteq Range(known_sensors')
       /\ LinesGenerated => display_lines' = SortedRows(DictOrder(dicts[current_data]), snap_view)
       /\ (mpc \in UpdatePositions /\ mpc' \in UpdatePositions /\ mpc # "display_lines")
             => /\ display_lines' = display_lines
                /\ IsPrefix(RowStrings(cycle_calls'), display_lines)]_vars

\* A record was stored after the snapshot of the cycle was taken, and the
\* second page of the cycle is being drawn from the snapshot.
C23_Witness ==
    /\ mpc = "line"
    /\ line_idx > Rows - 1
    /\ Len(RowStrings(cycle_calls)) = Rows
    /\ snap_view # View(dicts, readings, ListId)
    /\ View(dicts, readings, current_data) = snap_view

\* The row of display_lines that carries the name of the sensor.
RowOf(m, a_line) == SubSeq(a_line, 1, 7) = FormatS(MacName(sensor_config, m), 7)
\* The clock lines the cycle can have written: the clock has moved by one
\* page interval for each page turned.
ClockLines(calls) ==
    {NowStr(DateTime(now - k * page_interval)) : k \in 0..Cardinality(ClearCalls(calls))}

\* C28: row placement.  Every string a cycle writes goes to a row of 1..4;
\* what goes to row 4 is the clock line and what goes to the rows 1..3 are the
\* sensor rows, in their order; and when an ON cycle has drawn its pages,
\* whatever the size of the snapshot, each sensor of the snapshot has been
\* written exactly once, as one row.
C28_RowPlacement ==
    /\ \A i \in 1..Len(cycle_calls) :
          cycle_calls[i].op = "lcd_display_string"
             => /\ cycle_calls[i].line \in 1..Rows
                /\ cycle_calls[i].line = Rows => cycle_calls[i].string \in ClockLines(cycle_calls)
                /\ cycle_calls[i].line # Rows => cycle_calls[i].string \notin ClockLines(cycle_calls)
    /\ RowWrites(cycle_calls) # {} => IsPrefix(RowStrings(cycle_calls), display_lines)
    /\ (mpc = "sleep" /\ cycle_calls # << >> /\ cycle_calls[1].state = 1)
          => /\ RowStrings(cycle_calls) = display_lines
             /\ Len(display_lines) = Cardinality(DOMAIN snap_view)
             /\ \A m \in DOMAIN snap_view :
                   Cardinality({i \in 1..Len(display_lines) : RowOf(m, display_lines[i])}) = 1

\* An ON cycle has drawn a snapshot of more than six sensors on three pages.
C28_Witness ==
    /\ mpc = "sleep"
    /\ cycle_calls # << >>
    /\ cycle_calls[1].state = 1
    /\ Cardinality(DOMAIN snap_view) > 2 * (Rows - 1)
    /\ Cardinality(ClearCalls(cycle_calls)) = 3
    /\ RowStrings(cycle_calls) = display_lines

\* The pages a cycle has begun, and the pages n rows take.
PagesBegun(calls) == Cardinality(ClearCalls(calls))
PagesOf(n) == IF n = 0 THEN 1 ELSE (n + Rows - 2) \div (Rows - 1)
OnCycle(calls) == calls # << >> /\ calls[1].state = 1

\* C29: pauses per cycle.  An ON cycle that draws p pages has paused p - 1
\* times when its last page is drawn: once between each two consecutive
\* pages, and never when no row is left to draw; an OFF cycle has not paused.
\* The loop then sleeps once, for the page interval, and the next cycle
\* begins after p sleeps in all, after one for an OFF cycle or an empty
\* snapshot.
C29_PausesPerCycle ==
    [][/\ (mpc' \in UpdatePositions \cup {"sleep"} /\ OnCycle(cycle_calls') /\ PagesBegun(cycle_calls') > 0)
             => cycle_pauses' = IF mpc' = "page_clear"
                                THEN PagesBegun(cycle_calls')
                                ELSE PagesBegun(cycle_calls') - 1
       /\ (mpc' = "sleep" /\ OnCycle(cycle_calls'))
             => /\ PagesBegun(cycle_calls') = PagesOf(Len(display_lines'))
                /\ cycle_pauses' = PagesOf(Cardinality(DOMAIN snap_view')) - 1
       /\ (mpc' = "sleep" /\ ~OnCycle(cycle_calls')) => cycle_pauses' = 0
       /\ (mpc = "page_sleep" /\ cycle_pauses' # cycle_pauses) => line_idx <= Len(display_lines)
       /\ cycle_pauses' # cycle_pauses
             => \/ mpc = "while" /\ cycle_pauses' = 0
                \/ mpc \in SleepPositions /\ cycle_pauses' = cycle_pauses + 1 /\ now' = now + page_interval
       /\ (mpc = "sleep" /\ mpc' = "while" /\ ~terminate_monitor') => cycle_pauses' = cycle_pauses + 1
       /\ (CycleStarts /\ cycles > 0)
             => cycle_pauses = IF OnCycle(cycle_calls) THEN PagesOf(Cardinality(DOMAIN snap_view)) ELSE 1]_vars

\* An ON cycle of three pages has ended: two pauses and the closing sleep.
C29_Witness ==
    /\ mpc = "while"
    /\ cycles > 0
    /\ OnCycle(cycle_calls)
    /\ PagesBegun(cycle_calls) = 3
    /\ cycle_pauses = 3
    /\ ~terminate_monitor

\* ---------------------------------------------- claims on the whole program
\* The steps of one _clean_up call, in the order of lines 302-312.
CleanUpSequence == << "flag_cleared", "joined", "backlight", "lcd_clear", "lcd_close", "complete" >>

\* The trace is made of clean-up calls that each went through the steps in
\* their order from the first, the last of them as far as it has come and an
\* earlier one as far as it came before a handler or an exception took over.
InCleanUpOrder(trace) ==
    \A k \in 1..Len(trace) :
        \/ trace[k] = CleanUpSequence[1]
        \/ /\ k > 1
           /\ \E i \in 1..(Len(CleanUpSequence) - 1) :
                 trace[k - 1] = CleanUpSequence[i] /\ trace[k] = CleanUpSequence[i + 1]

\* Why the program is ending: SIGTERM, an error of a cycle, ctrl-c.
SigtermHandled == sigterms > 0
InterruptLogged ==
    \E i \in 1..Len(mon_log) :
        mon_log[i].text \in {"ctrl-c caught in SensorMonitor.run()", "ctrl-c caught in MainProgram.run()"}

\* C19: clean-up order.  Whatever ends the loop (SIGTERM, an error of a cycle,
\* ctrl-c), clean-up goes through the same steps in the same order: the run
\* flag of the ingestion is cleared and the thread is waited for until it has
\* ended, then the LCD is cleared, then it is closed; the program has not
\* stopped before the thread has ended, the panel is blank and the LCD is
\* closed; and once the wait for the thread has returned no record changes
\* the cache.
C19_CleanUpOrder ==
    [][/\ InCleanUpOrder(cleanup_trace')
       /\ (cleanup_trace' # cleanup_trace /\ cleanup_trace'[Len(cleanup_trace')] \in {"joined", "lcd_clear", "lcd_close"})
             => ~runflag' /\ ~thd_alive'
       /\ ppc' = "stopped"
             => /\ SigtermHandled' \/ ErrorLogged' \/ InterruptLogged'
                /\ terminate_monitor'
                /\ ~runflag' /\ ~thd_alive'
                /\ PanelBlank(lcd_rows')
                /\ ~lcd_open'
                /\ \E i, j, k, l \in 1..Len(cleanup_trace') :
                      /\ i < j /\ j < k /\ k < l
                      /\ cleanup_trace'[i] = "flag_cleared"
                      /\ cleanup_trace'[j] = "joined"
                      /\ cleanup_trace'[k] = "lcd_clear"
                      /\ cleanup_trace'[l] = "lcd_close"
       /\ (\E i \in 1..Len(cleanup_trace) : cleanup_trace[i] = "joined")
             => UNCHANGED << dicts, readings, data_point_count, pending_sensor_changes, wpc >>]_vars

\* SIGTERM came in the middle of a display update; the handler's clean-up
\* went through its steps once while the ingestion thread made a record, and
\* the program has stopped.
C19_Witness ==
    /\ ppc = "stopped"
    /\ sigterms = 1
    /\ mpc = "line"
    /\ cleanup_trace = CleanUpSequence
    /\ data_point_count > MaxSensors
    /\ ~ErrorLogged
    /\ ~InterruptLogged

\* How many times clean-up has completed the given step.
StepCount(step) == Cardinality({i \in 1..Len(cleanup_trace) : cleanup_trace[i] = step})

\* C34: clean-up runs at most once.  Whatever ends the loop and whenever
\* SIGTERM is delivered, in a cycle, in a sleep or while clean-up is under
\* way, no step of the clean-up sequence is executed a second time.
C34_CleanUpOnce == \A k \in 1..Len(CleanUpSequence) : StepCount(CleanUpSequence[k]) <= 1

\* A step in which the main thread calls backlight, lcd_clear or
\* lcd_display_string of the LCD: from the monitor loop (the call may fail on
\* the bus) or from _clean_up, in a signal handler or not.
LcdCallStep ==
    \/ InRun /\ (MonBacklight \/ MonLcdClear \/ MonTimeDisplay \/ MonLine \/ MonPageClear
                    \/ MonPageTimeDisplay \/ MonLcdFault)
    \/ CleanUpBacklight
    \/ CleanUpLcdClear

\* C35: no display use after release.  Once lcd_close has released the LCD,
\* neither the monitor loop nor clean-up, in a signal handler or out of it,
\* calls backlight, clear or write on it.
C35_NoUseAfterRelease == [][LcdCallStep => lcd_open]_vars

\* C22: bounded wait for the ingestion thread.  When clean-up waits for the
\* ingestion thread the wait ends after a finite time, also when the thread
\* never exits, and clean-up goes on towards clearing and closing the LCD.
C22_BoundedJoin == (cpc = "join") ~> (cpc # "join")

\* ------------------------------------------ claims on the names and the clock
\* The separator characters of an id, the id without them, the last
\* characters of a string.
Separators == {":", "-"}
NoSeparators(text) == SelectSeq(text, LAMBDA c : c \notin Separators)
LastChars(text, k) == SubSeq(text, IF Len(text) > k THEN Len(text) - k + 1 ELSE 1, Len(text))
NameLength == 4

\* C24: name resolution.  The name of an id of the name mapping is the name
\* the mapping gives; the name of any other id, with separators or without,
\* is the last four characters of the id without its separators.
C24_NameResolution ==
    (text_call.op = "_mac_name" /\ text_result.done)
        => text_result.str =
              IF text_call.mac \in DOMAIN text_call.config
              THEN text_call.config[text_call.mac].name
              ELSE LastChars(NoSeparators(MacText(text_call.mac)), NameLength)

\* The part of the clock line that follows the date and its two spaces.
ClockPart(str) == SubSeq(str, 13, Len(str))

\* C25: clock line format.  For every hour 0..23 and minute 0..59 the clock
\* line shows the hour of the 12-hour clock, a value of 1..12 without a
\* leading zero, the minute as two digits, and "am" for the hours 0..11,
\* "pm" for the hours 12..23.
C25_ClockFormat ==
    (text_call.op = "_now_str" /\ text_result.done)
        => LET h == text_call.now_dt.hour
               shown == ((h + 11) % 12) + 1
           IN ClockPart(text_result.str) =
                 FormatD(shown, 2, " ") \o << ":" >> \o FormatD(text_call.now_dt.minute, 2, "0")
                 \o << " " >> \o (IF h < 12 THEN << "a", "m" >> ELSE << "p", "m" >>)

\* A request to end the program has been made: the flag is set (terminate(),
\* an error of a cycle, ctrl-c in run), SIGTERM was delivered, or run was left.
TerminationRequested == terminate_monitor \/ sigterms > 0 \/ ppc # "run"

\* C27: shutdown liveness.  With a main thread that goes on, LCD calls that
\* return and a receiver that honours the run flag, every termination request
\* (SIGTERM, terminate(), an error of a cycle, ctrl-c) is followed in the end
\* by the stopped program with the panel cleared and the LCD closed.
C27_ShutdownLiveness ==
    TerminationRequested ~> (ppc = "stopped" /\ PanelBlank(lcd_rows) /\ ~lcd_open)

====
